---------------------------- MODULE Spec2Model ----------------------------
(***************************************************************************)
(* Reconciliation engine of the accounts-receivable tracker: matching of   *)
(* parsed bank deposits against outstanding transactions.                  *)
(*                                                                         *)
(*   - isNameMatch / normalizeString        (name matcher)                 *)
(*   - performMatching                      (single-match engine)          *)
(*   - findMatchingCombination / backtrack  (combination search)           *)
(*   - performGroupMatching                 (group-match engine)           *)
(*   - UploadPage handlers                  (manual group-match workflow)  *)
(*   - parseKBExcel / parseCSV              (bank-statement parsers)       *)
(*   - handleStatusChange / handlePaidAtChange (work-log page)             *)
(*                                                                         *)
(* Strings are sequences of one-character strings; ISO dates YYYY-MM-DD    *)
(* are triples <<y, m, d>> (zero-padded fixed-width text compares as the   *)
(* triple does, and substring(0, 4) is the year).                          *)
(***************************************************************************)
EXTENDS Integers, Sequences, FiniteSets, TLC

VARIABLES
    driver,                 \* which caller exercises the code: "core" | "comb" |
                            \*   "name" | "page" | "faulty" (the page over a store whose
                            \*   updates may throw) | "worklog" | "excel" | "csv" |
                            \*   "search" (backtrack one step at a time)
    transactions,           \* Transaction[] handed to the matching core / fetched by the page
    bankRecords,            \* BankRecord[] handed to the matching core
    pc,                     \* position of the driver: "start" | "single" | "group" |
                            \*   "searched" | "named" | "parsed" | "searching"
    results,                \* MatchResult[] returned by performMatching
    usedRecordIds,          \* Set<string> passed to performGroupMatching
    usedTransactionIds,     \* Set<string> passed to performGroupMatching
    groupResults,           \* GroupMatchResult[] returned by performGroupMatching
    cands,                  \* candidate list given to findMatchingCombination
    target,                 \* targetAmount given to findMatchingCombination
    combo,                  \* value returned by findMatchingCombination
    parsedRecords,          \* UploadPage state: ParsedBankRecord[]
    step,                   \* UploadPage state: UploadStep
    matchResults,           \* UploadPage state: MatchResult[]
    groupMatchResults,      \* UploadPage state: GroupMatchResult[]
    unmatchedRecords,       \* UploadPage state: BankRecord[]
    unmatchedTransactions,  \* UploadPage state: Transaction[]
    selectedRecordForGroup, \* UploadPage state: BankRecord | null
    selectedTransactionIds, \* UploadPage state: Set<string>
    error,                  \* UploadPage state: error message ("" when none)
    clientNameArg,          \* clientName given to isNameMatch
    depositorArg,           \* depositor given to isNameMatch
    nameMatched,            \* value returned by isNameMatch (FALSE before the call)
    rawData,                \* sheet / file content given to parseKBExcel or parseCSV
    parsed,                 \* ParsedBankRecord[] returned by the parser (its records)
    callStack,              \* the calls of backtrack that have not returned, outermost first
    ret,                    \* the value a call of backtrack has just returned
    searchSorted            \* const sorted of the running findMatchingCombination

coreVars == <<transactions, bankRecords, pc, results, usedRecordIds,
              usedTransactionIds, groupResults>>
combVars == <<cands, target, combo>>
pageVars == <<parsedRecords, step, matchResults, groupMatchResults,
              unmatchedRecords, unmatchedTransactions, selectedRecordForGroup,
              selectedTransactionIds, error>>
nameVars == <<clientNameArg, depositorArg, nameMatched>>
parseVars == <<rawData, parsed>>
searchVars == <<callStack, ret, searchSorted>>
vars == <<driver, coreVars, combVars, pageVars, nameVars, parseVars, searchVars>>

\* The row of the store with the given id
Stored(id) == transactions[CHOOSE i \in 1..Len(transactions) : transactions[i].id = id]

---------------------------------------------------------------------------
(* Bounds of the model *)

MaxTx == 3          \* transactions in one matching run
MaxRec == 2         \* deposits in one matching run
MaxShort == 4       \* length of the freely ordered candidate lists
MaxLong == 11       \* length of the longest candidate list (beyond the cap)
MaxTarget == 6      \* largest target amount tried by the combination search
MaxNameLen == 2     \* length of the names given to the name matcher

---------------------------------------------------------------------------
(* Sequence helpers *)

Range(s) == { s[i] : i \in 1..Len(s) }

RECURSIVE SumAmounts(_)
SumAmounts(s) == IF s = <<>> THEN 0 ELSE Head(s).amount + SumAmounts(Tail(s))

Ids(s) == { s[i].id : i \in 1..Len(s) }

---------------------------------------------------------------------------
(* Data: null values, dates, characters *)

NoDate == <<>>                                   \* order_date / paid_at null
NoClient == [id |-> 0, name |-> <<>>, parent_id |-> 0]   \* clients null
NoParent == 0                                    \* parent_id null
NoRecord == [id |-> 0]                           \* selectedRecordForGroup null
NoSheet == [depositColumn |-> FALSE, rows |-> <<>>]   \* no file given to a parser
NoReturn == [pending |-> FALSE, found |-> FALSE, selected |-> <<>>]   \* no call has just returned

Year(d) == d[1]                                  \* substring(0, 4)

\* a > b on ISO date strings (lexicographic on zero-padded text)
DateAfter(a, b) ==
    \/ a[1] > b[1]
    \/ a[1] = b[1] /\ a[2] > b[2]
    \/ a[1] = b[1] /\ a[2] = b[2] /\ a[3] > b[3]

Whitespace == {" "}
WordChars == {"a", "b", "c", "A", "B", "C", "0", "1", "_"}   \* \w
Hangul == {"ga", "hih"}               \* 가-힣, written by their romanisation

toLowerCase(c) ==
    CASE c = "A" -> "a"
      [] c = "B" -> "b"
      [] c = "C" -> "c"
      [] OTHER -> c

RECURSIVE MapLower(_)
MapLower(s) == IF s = <<>> THEN <<>> ELSE <<toLowerCase(Head(s))>> \o MapLower(Tail(s))

\* String.prototype.includes
includes(hay, needle) ==
    \E i \in 1..(Len(hay) + 1) :
        /\ i + Len(needle) - 1 <= Len(hay)
        /\ SubSeq(hay, i, i + Len(needle) - 1) = needle

---------------------------------------------------------------------------
(* Name matcher *)

\* str.replace(/\s+/g, '').replace(/[^\w가-힣]/g, '').toLowerCase()
normalizeString(str) ==
    LET noSpace == SelectSeq(str, LAMBDA c : c \notin Whitespace)
        onlyWord == SelectSeq(noSpace, LAMBDA c : c \in WordChars \cup Hangul)
    IN  MapLower(onlyWord)

\* Mutant of isNameMatch: only the depositor is searched for the client name
isNameMatchOneWay(clientName, depositor) ==
    IF clientName = <<>> \/ depositor = <<>>
    THEN FALSE
    ELSE includes(normalizeString(depositor), normalizeString(clientName))

isNameMatch(clientName, depositor) ==
    IF clientName = <<>> \/ depositor = <<>>
    THEN FALSE
    ELSE LET normalizedClient == normalizeString(clientName)
             normalizedDepositor == normalizeString(depositor)
         IN  \/ includes(normalizedDepositor, normalizedClient)
             \/ includes(normalizedClient, normalizedDepositor)

---------------------------------------------------------------------------
(* Single-match engine *)

\* Mutant of IsPending: the card status is not excluded
IsPendingCardOpen(t) ==
    /\ t.status # "completed"
    /\ t.paid_at = NoDate

\* t.status !== 'completed' && t.status !== 'card' && !t.paid_at
IsPending(t) ==
    /\ t.status # "completed"
    /\ t.status # "card"
    /\ t.paid_at = NoDate

\* transaction.clients?.name || ''
ClientNameOf(t) == IF t.clients = NoClient THEN <<>> ELSE t.clients.name

\* Mutant of RecordAccepts: a deposit consumed by an earlier pair is offered again
RecordAcceptsConsumed(transaction, record, res) ==
    /\ transaction.amount = record.amount
    /\ ~ ( /\ transaction.order_date # NoDate
           /\ Year(transaction.order_date) # Year(record.transaction_date) )
    /\ ~ ( /\ transaction.order_date # NoDate
           /\ DateAfter(transaction.order_date, record.transaction_date) )
    /\ ClientNameOf(transaction) # <<>>
    /\ isNameMatch(ClientNameOf(transaction), record.depositor)

\* Mutant of RecordAccepts: the year of the order date is not compared
RecordAcceptsAnyYear(transaction, record, res) ==
    /\ ~ \E k \in 1..Len(res) : res[k].bankRecord.id = record.id
    /\ transaction.amount = record.amount
    /\ ~ ( /\ transaction.order_date # NoDate
           /\ DateAfter(transaction.order_date, record.transaction_date) )
    /\ ClientNameOf(transaction) # <<>>
    /\ isNameMatch(ClientNameOf(transaction), record.depositor)

\* The tests of one deposit in the inner loop: TRUE when the loop body
\* reaches results.push for this (transaction, record).
RecordAccepts(transaction, record, res) ==
    /\ ~ \E k \in 1..Len(res) : res[k].bankRecord.id = record.id
    /\ transaction.amount = record.amount
    /\ ~ ( /\ transaction.order_date # NoDate
           /\ Year(transaction.order_date) # Year(record.transaction_date) )
    /\ ~ ( /\ transaction.order_date # NoDate
           /\ DateAfter(transaction.order_date, record.transaction_date) )
    /\ ClientNameOf(transaction) # <<>>
    /\ isNameMatch(ClientNameOf(transaction), record.depositor)

\* Mutant of ScanRecords: the deposits are scanned from the last to the first
RECURSIVE ScanRecordsLastFirst(_, _, _, _)
ScanRecordsLastFirst(transaction, recs, j, res) ==
    IF j > Len(recs) THEN res
    ELSE IF RecordAccepts(transaction, recs[Len(recs) + 1 - j], res)
         THEN Append(res, [transaction |-> transaction,
                           bankRecord |-> recs[Len(recs) + 1 - j],
                           matchType |-> "exact"])
         ELSE ScanRecordsLastFirst(transaction, recs, j + 1, res)

\* for (const record of unmatchedRecords) { ... break; }
RECURSIVE ScanRecords(_, _, _, _)
ScanRecords(transaction, recs, j, res) ==
    IF j > Len(recs) THEN res
    ELSE IF RecordAccepts(transaction, recs[j], res)
         THEN Append(res, [transaction |-> transaction,
                           bankRecord |-> recs[j],
                           matchType |-> "exact"])
         ELSE ScanRecords(transaction, recs, j + 1, res)

\* for (const transaction of pendingTransactions) { ... }
RECURSIVE MatchLoop(_, _, _, _)
MatchLoop(pending, recs, i, res) ==
    IF i > Len(pending) THEN res
    ELSE MatchLoop(pending, recs, i + 1, ScanRecords(pending[i], recs, 1, res))

\* Mutant of performMatching: the loops run over the arguments, not over the
\* filtered lists
performMatchingUnfiltered(txs, recs) == MatchLoop(txs, recs, 1, <<>>)

performMatching(txs, recs) ==
    LET unmatched == SelectSeq(recs, LAMBDA r : ~ r.is_matched)
        pendingTransactions == SelectSeq(txs, IsPending)
    IN  MatchLoop(pendingTransactions, unmatched, 1, <<>>)

---------------------------------------------------------------------------
(* Combination search *)

maxItemsCap == 10

NoCombination == [found |-> FALSE, selected |-> <<>>]    \* null

\* [...transactions].sort((a, b) => b.amount - a.amount): stable, descending
RECURSIVE InsertDesc(_, _)
InsertDesc(sorted, t) ==
    IF sorted = <<>> THEN <<t>>
    ELSE IF Head(sorted).amount >= t.amount
         THEN <<Head(sorted)>> \o InsertDesc(Tail(sorted), t)
         ELSE <<t>> \o sorted

RECURSIVE SortDesc(_)
SortDesc(s) ==
    IF s = <<>> THEN <<>>
    ELSE InsertDesc(SortDesc(SubSeq(s, 1, Len(s) - 1)), s[Len(s)])

Min(a, b) == IF a <= b THEN a ELSE b

\* Mutant of backtrack: accepts a selection of a single transaction
RECURSIVE backtrackSingle(_, _, _, _, _, _)
backtrackSingle(sorted, maxItems, targetAmount, index, currentSum, selected) ==
    IF currentSum = targetAmount /\ Len(selected) >= 1
    THEN [found |-> TRUE, selected |-> selected]
    ELSE IF currentSum > targetAmount \/ index >= maxItems
    THEN NoCombination
    ELSE LET withCurrent ==
                 backtrackSingle(sorted, maxItems, targetAmount, index + 1,
                                 currentSum + sorted[index + 1].amount,
                                 Append(selected, sorted[index + 1]))
         IN  IF withCurrent.found THEN withCurrent
             ELSE backtrackSingle(sorted, maxItems, targetAmount, index + 1,
                                  currentSum, selected)

\* Mutant of backtrack: abandons a branch as soon as the sum reaches the target
RECURSIVE backtrackPruneAtTarget(_, _, _, _, _, _)
backtrackPruneAtTarget(sorted, maxItems, targetAmount, index, currentSum, selected) ==
    IF currentSum = targetAmount /\ Len(selected) >= 2
    THEN [found |-> TRUE, selected |-> selected]
    ELSE IF currentSum >= targetAmount \/ index >= maxItems
    THEN NoCombination
    ELSE LET withCurrent ==
                 backtrackPruneAtTarget(sorted, maxItems, targetAmount, index + 1,
                                        currentSum + sorted[index + 1].amount,
                                        Append(selected, sorted[index + 1]))
         IN  IF withCurrent.found THEN withCurrent
             ELSE backtrackPruneAtTarget(sorted, maxItems, targetAmount, index + 1,
                                         currentSum, selected)

\* Mutant of backtrack: accepts a selection whose sum reaches or passes the target
RECURSIVE backtrackAtLeast(_, _, _, _, _, _)
backtrackAtLeast(sorted, maxItems, targetAmount, index, currentSum, selected) ==
    IF currentSum >= targetAmount /\ Len(selected) >= 2
    THEN [found |-> TRUE, selected |-> selected]
    ELSE IF currentSum > targetAmount \/ index >= maxItems
    THEN NoCombination
    ELSE LET withCurrent ==
                 backtrackAtLeast(sorted, maxItems, targetAmount, index + 1,
                                  currentSum + sorted[index + 1].amount,
                                  Append(selected, sorted[index + 1]))
         IN  IF withCurrent.found THEN withCurrent
             ELSE backtrackAtLeast(sorted, maxItems, targetAmount, index + 1,
                                   currentSum, selected)

\* Mutant of backtrack: tries the branch without the current transaction first
RECURSIVE backtrackExcludeFirst(_, _, _, _, _, _)
backtrackExcludeFirst(sorted, maxItems, targetAmount, index, currentSum, selected) ==
    IF currentSum = targetAmount /\ Len(selected) >= 2
    THEN [found |-> TRUE, selected |-> selected]
    ELSE IF currentSum > targetAmount \/ index >= maxItems
    THEN NoCombination
    ELSE LET withoutCurrent ==
                 backtrackExcludeFirst(sorted, maxItems, targetAmount, index + 1,
                                       currentSum, selected)
         IN  IF withoutCurrent.found THEN withoutCurrent
             ELSE backtrackExcludeFirst(sorted, maxItems, targetAmount, index + 1,
                                        currentSum + sorted[index + 1].amount,
                                        Append(selected, sorted[index + 1]))

\* backtrack(index, currentSum, selected) of findMatchingCombination
RECURSIVE backtrack(_, _, _, _, _, _)
backtrack(sorted, maxItems, targetAmount, index, currentSum, selected) ==
    IF currentSum = targetAmount /\ Len(selected) >= 2
    THEN [found |-> TRUE, selected |-> selected]
    ELSE IF currentSum > targetAmount \/ index >= maxItems
    THEN NoCombination
    ELSE LET withCurrent ==
                 backtrack(sorted, maxItems, targetAmount, index + 1,
                           currentSum + sorted[index + 1].amount,
                           Append(selected, sorted[index + 1]))
         IN  IF withCurrent.found THEN withCurrent
             ELSE backtrack(sorted, maxItems, targetAmount, index + 1,
                            currentSum, selected)

\* Mutant of findMatchingCombination: searches the whole list (no cap)
findMatchingCombinationNoCap(txs, targetAmount) ==
    LET sorted == SortDesc(txs)
    IN  backtrack(sorted, Len(sorted), targetAmount, 0, 0, <<>>)

\* Mutant of findMatchingCombination: caps the search after 9 candidates
findMatchingCombinationCapNine(txs, targetAmount) ==
    LET sorted == SortDesc(txs)
        maxItems == Min(Len(sorted), maxItemsCap - 1)
    IN  backtrack(sorted, maxItems, targetAmount, 0, 0, <<>>)

findMatchingCombination(txs, targetAmount) ==
    LET sorted == SortDesc(txs)
        maxItems == Min(Len(sorted), maxItemsCap)
    IN  backtrack(sorted, maxItems, targetAmount, 0, 0, <<>>)

---------------------------------------------------------------------------
(* Group-match engine *)

\* client.parent_id || client.id, null without a client
getParentClientId(t) ==
    IF t.clients = NoClient THEN 0
    ELSE IF t.clients.parent_id # NoParent THEN t.clients.parent_id
         ELSE t.clients.id

\* Keys of transactionsByClient in insertion order (first occurrence)
RECURSIVE GroupKeys(_, _)
GroupKeys(pending, keys) ==
    IF pending = <<>> THEN keys
    ELSE LET parentId == getParentClientId(Head(pending))
         IN  IF parentId = 0 \/ parentId \in Range(keys)
             THEN GroupKeys(Tail(pending), keys)
             ELSE GroupKeys(Tail(pending), Append(keys, parentId))

\* Mutant of GroupOf: every pending transaction is pushed into every group
GroupOfEveryone(pending, parentId) == pending

\* transactionsByClient.get(parentId)
GroupOf(pending, parentId) ==
    SelectSeq(pending, LAMBDA t : getParentClientId(t) = parentId)

\* transactions.find(t => t.clients?.id === parent_id)?.clients
FindParentClient(txs, parentId) ==
    IF \E i \in 1..Len(txs) : txs[i].clients # NoClient /\ txs[i].clients.id = parentId
    THEN LET i == CHOOSE i \in 1..Len(txs) :
                      /\ txs[i].clients # NoClient /\ txs[i].clients.id = parentId
                      /\ \A k \in 1..(i - 1) :
                            ~ (txs[k].clients # NoClient /\ txs[k].clients.id = parentId)
         IN  txs[i].clients
    ELSE NoClient

\* parentClient?.name || clientName for the first available transaction
DisplayName(txs, first) ==
    LET clientName == ClientNameOf(first)
        parentClient == IF first.clients # NoClient /\ first.clients.parent_id # NoParent
                        THEN FindParentClient(txs, first.clients.parent_id)
                        ELSE NoClient
    IN  IF parentClient # NoClient /\ parentClient.name # <<>>
        THEN parentClient.name
        ELSE clientName

\* clientTransactions.filter(t => !results.some(r => r.transactions.some(rt => rt.id === t.id)))
Available(clientTransactions, res) ==
    SelectSeq(clientTransactions,
              LAMBDA t : ~ \E k \in 1..Len(res) : t.id \in Ids(res[k].transactions))

\* for (const [parentId, clientTransactions] of transactionsByClient) { ... break; }
RECURSIVE TryGroups(_, _, _, _, _, _)
TryGroups(txs, pending, keys, g, record, res) ==
    IF g > Len(keys) THEN res
    ELSE LET availableTransactions == Available(GroupOf(pending, keys[g]), res)
         IN  IF Len(availableTransactions) < 2
             THEN TryGroups(txs, pending, keys, g + 1, record, res)
             ELSE LET displayName == DisplayName(txs, availableTransactions[1])
                  IN  IF ~ isNameMatch(displayName, record.depositor)
                      THEN TryGroups(txs, pending, keys, g + 1, record, res)
                      ELSE LET matchingCombination ==
                                   findMatchingCombination(availableTransactions, record.amount)
                           IN  IF matchingCombination.found
                                  /\ Len(matchingCombination.selected) >= 2
                               THEN Append(res,
                                      [transactions |-> matchingCombination.selected,
                                       bankRecord |-> record,
                                       clientName |-> displayName,
                                       totalAmount |-> record.amount])
                               ELSE TryGroups(txs, pending, keys, g + 1, record, res)

\* for (const record of unmatchedRecords) { ... }
RECURSIVE GroupLoop(_, _, _, _, _, _)
GroupLoop(txs, pending, keys, recs, j, res) ==
    IF j > Len(recs) THEN res
    ELSE IF \E k \in 1..Len(res) : res[k].bankRecord.id = recs[j].id
         THEN GroupLoop(txs, pending, keys, recs, j + 1, res)
         ELSE GroupLoop(txs, pending, keys, recs, j + 1,
                        TryGroups(txs, pending, keys, 1, recs[j], res))

\* Mutant of performGroupMatching: usedTransactionIds is not consulted
performGroupMatchingReusing(txs, recs, usedRecs, usedTxs) ==
    LET unmatched == SelectSeq(recs, LAMBDA r : ~ r.is_matched /\ r.id \notin usedRecs)
        pendingTransactions == SelectSeq(txs, IsPending)
        keys == GroupKeys(pendingTransactions, <<>>)
    IN  GroupLoop(txs, pendingTransactions, keys, unmatched, 1, <<>>)

performGroupMatching(txs, recs, usedRecs, usedTxs) ==
    LET unmatched == SelectSeq(recs, LAMBDA r : ~ r.is_matched /\ r.id \notin usedRecs)
        pendingTransactions ==
            SelectSeq(txs, LAMBDA t : IsPending(t) /\ t.id \notin usedTxs)
        keys == GroupKeys(pendingTransactions, <<>>)
    IN  GroupLoop(txs, pendingTransactions, keys, unmatched, 1, <<>>)

---------------------------------------------------------------------------
(* Inputs of the matching core *)

ClientP == [id |-> 1, name |-> <<"A", " ", "b">>, parent_id |-> NoParent]
ClientS == [id |-> 2, name |-> <<"c">>, parent_id |-> 1]
ClientQ == [id |-> 3, name |-> <<"b">>, parent_id |-> NoParent]

Depositors == {<<"a", "b">>, <<"C", "-">>}
DepositAmounts == {2, 3}
DepositDate == <<2024, 1, 2>>

Transaction(id, amount, client, orderDate, status, paidAt) ==
    [id |-> id, amount |-> amount, clients |-> client, order_date |-> orderDate,
     status |-> status, paid_at |-> paidAt]

BankRecord(id, amount, date, depositor, isMatched) ==
    [id |-> id, amount |-> amount, transaction_date |-> date,
     depositor |-> depositor, is_matched |-> isMatched]

\* What one input transaction may be: undated orders of the parent client and
\* of its sub-client, of an unrelated client whose name is contained in the
\* parent's, an order without a client, and orders of the parent client dated
\* the year before, before and after the deposit date.
TxFields ==
    [amount : {1, 2}, clients : {ClientP, ClientS}, order_date : {NoDate}]
    \cup [amount : {1}, clients : {ClientQ}, order_date : {NoDate}]
    \cup [amount : {2}, clients : {NoClient}, order_date : {NoDate}]
    \cup [amount : {2}, clients : {ClientP},
          order_date : {<<2023, 12, 31>>, <<2024, 1, 1>>, <<2024, 1, 3>>}]

RecFields == [amount : DepositAmounts, depositor : Depositors,
              transaction_date : {DepositDate}]

InitIdle ==
    /\ cands = <<>> /\ target = 0 /\ combo = NoCombination
    /\ parsedRecords = <<>> /\ step = "upload"
    /\ matchResults = <<>> /\ groupMatchResults = <<>>
    /\ unmatchedRecords = <<>> /\ unmatchedTransactions = <<>>
    /\ selectedRecordForGroup = NoRecord /\ selectedTransactionIds = {}
    /\ error = ""
    /\ rawData = NoSheet /\ parsed = <<>>
    /\ callStack = <<>> /\ ret = NoReturn /\ searchSorted = <<>>
    /\ clientNameArg = <<>> /\ depositorArg = <<>> /\ nameMatched = FALSE

\* Group-relevant transactions only, for runs with one transaction more
GroupTxFields == [amount : {1, 2}, clients : {ClientP, ClientQ}, order_date : {NoDate}]

MakeTransactions(f) ==
    [i \in DOMAIN f |->
        Transaction(i, f[i].amount, f[i].clients, f[i].order_date, "quote", NoDate)]

MakeBankRecords(g) ==
    [j \in DOMAIN g |->
        BankRecord(j, g[j].amount, g[j].transaction_date, g[j].depositor, FALSE)]

InitCore ==
    /\ driver = "core"
    /\ \/ \E f \in [1..MaxTx -> TxFields] : transactions = MakeTransactions(f)
       \/ \E f \in [1..(MaxTx + 1) -> GroupTxFields] : transactions = MakeTransactions(f)
    /\ \E g \in [1..MaxRec -> RecFields] : bankRecords = MakeBankRecords(g)
    /\ pc = "start"
    /\ results = <<>> /\ groupResults = <<>>
    /\ usedRecordIds = {} /\ usedTransactionIds = {}
    /\ InitIdle

\* The arguments of performMatching as the call leaves them: filter() returns
\* new arrays, and push writes only the local results array
performMatchingArgs(txs, recs) == [transactions |-> txs, bankRecords |-> recs]

\* The arguments of performGroupMatching as the call leaves them: filter()
\* returns new arrays, the Sets are only read with has(), and push writes the
\* local results array and the arrays of the local Map
performGroupMatchingArgs(txs, recs, usedRecs, usedTxs) ==
    [transactions |-> txs, bankRecords |-> recs,
     usedRecordIds |-> usedRecs, usedTransactionIds |-> usedTxs]

RunPerformMatching ==
    /\ driver = "core" /\ pc = "start"
    /\ results' = performMatching(transactions, bankRecords)
    /\ transactions' = performMatchingArgs(transactions, bankRecords).transactions
    /\ bankRecords' = performMatchingArgs(transactions, bankRecords).bankRecords
    /\ usedRecordIds' = { results'[k].bankRecord.id : k \in 1..Len(results') }
    /\ usedTransactionIds' = { results'[k].transaction.id : k \in 1..Len(results') }
    /\ pc' = "single"
    /\ UNCHANGED <<driver, groupResults, combVars, pageVars, nameVars, parseVars, searchVars>>

RunPerformGroupMatching ==
    /\ driver = "core" /\ pc = "single"
    /\ groupResults' = performGroupMatching(transactions, bankRecords,
                                            usedRecordIds, usedTransactionIds)
    /\ LET args == performGroupMatchingArgs(transactions, bankRecords,
                                            usedRecordIds, usedTransactionIds)
       IN  /\ transactions' = args.transactions
           /\ bankRecords' = args.bankRecords
           /\ usedRecordIds' = args.usedRecordIds
           /\ usedTransactionIds' = args.usedTransactionIds
    /\ pc' = "group"
    /\ UNCHANGED <<driver, results, combVars, pageVars, nameVars, parseVars, searchVars>>

NextCore == RunPerformMatching \/ RunPerformGroupMatching

SpecCore == InitCore /\ [][NextCore]_vars

---------------------------------------------------------------------------
(* Properties of the matching core *)

SingleDone == driver = "core" /\ pc \in {"single", "group"}
GroupDone == driver = "core" /\ pc = "group"

\* C1: the pairs returned by performMatching form a partial injective mapping:
\* no transaction id and no deposit id appears in more than one MatchResult.
C1_SingleInjective ==
    SingleDone =>
        \A i, j \in 1..Len(results) :
            i # j => /\ results[i].transaction.id # results[j].transaction.id
                     /\ results[i].bankRecord.id # results[j].bankRecord.id

\* two pairs, and a third transaction that fits a deposit an earlier one took
C1_Witness ==
    /\ SingleDone
    /\ Len(results) = 2
    /\ \E i \in 1..Len(transactions) :
          /\ \A k \in 1..Len(results) : results[k].transaction.id # i
          /\ transactions[i].amount = results[1].bankRecord.amount
          /\ isNameMatch(ClientNameOf(transactions[i]), results[1].bankRecord.depositor)

\* C2: every returned pair (T, D) has equal amounts; if T has an order date its
\* year is D's year and it is not after D's date; T has a non-empty client
\* name matching D's depositor. A transaction without a client name, or with
\* an order date in another year than every deposit, is in no pair.
C2_SinglePairConditions ==
    SingleDone =>
        /\ \A k \in 1..Len(results) :
              LET T == results[k].transaction
                  D == results[k].bankRecord
              IN  /\ T.amount = D.amount
                  /\ T.order_date # NoDate =>
                        /\ T.order_date[1] = D.transaction_date[1]
                        /\ ~ DateAfter(T.order_date, D.transaction_date)
                  /\ T.clients # NoClient
                  /\ T.clients.name # <<>>
                  /\ isNameMatch(T.clients.name, D.depositor)
        /\ \A i \in 1..Len(transactions) :
              LET T == transactions[i]
              IN  ( \/ T.clients = NoClient
                    \/ /\ T.order_date # NoDate
                       /\ \A j \in 1..Len(bankRecords) :
                             bankRecords[j].transaction_date[1] # T.order_date[1] )
                  => \A k \in 1..Len(results) : results[k].transaction.id # T.id

\* Scenario B beside a dated pair: an order of the year before stays unmatched
\* although a deposit of its amount and name is left over
C2_Witness ==
    /\ SingleDone
    /\ \E k \in 1..Len(results) : results[k].transaction.order_date = <<2024, 1, 1>>
    /\ \E i \in 1..Len(transactions), j \in 1..Len(bankRecords) :
          /\ transactions[i].order_date = <<2023, 12, 31>>
          /\ transactions[i].amount = bankRecords[j].amount
          /\ isNameMatch(ClientNameOf(transactions[i]), bankRecords[j].depositor)
          /\ \A k \in 1..Len(results) :
                /\ results[k].bankRecord.id # bankRecords[j].id
                /\ results[k].transaction.id # transactions[i].id

\* C7: run after performMatching with its consumed ids, performGroupMatching
\* returns no deposit or transaction of those sets, no deposit in two
\* GroupMatchResults and no transaction in two GroupMatchResults.
C7_GroupNoReuse ==
    GroupDone =>
        /\ usedRecordIds = { results[k].bankRecord.id : k \in 1..Len(results) }
        /\ usedTransactionIds = { results[k].transaction.id : k \in 1..Len(results) }
        /\ \A g \in 1..Len(groupResults) :
              /\ groupResults[g].bankRecord.id \notin usedRecordIds
              /\ Ids(groupResults[g].transactions) \cap usedTransactionIds = {}
        /\ \A g, h \in 1..Len(groupResults) :
              g # h =>
                 /\ groupResults[g].bankRecord.id # groupResults[h].bankRecord.id
                 /\ Ids(groupResults[g].transactions)
                       \cap Ids(groupResults[h].transactions) = {}

\* a single match and a group match of the same client group in one run
C7_Witness ==
    /\ GroupDone
    /\ Len(results) = 1
    /\ Len(groupResults) = 1
    /\ results[1].transaction.clients.id = groupResults[1].transactions[1].clients.id
    /\ results[1].bankRecord.depositor = groupResults[1].bankRecord.depositor

\* The parent client id of a transaction with a client
ParentIdOf(t) == IF t.clients.parent_id # NoParent THEN t.clients.parent_id ELSE t.clients.id

\* C9: the transactions of one GroupMatchResult all have a client and share
\* one parent client id (the client's parent_id if set, else its own id).
C9_GroupSameParent ==
    GroupDone =>
        \A g \in 1..Len(groupResults) :
            LET T == groupResults[g].transactions
            IN  /\ \A i \in 1..Len(T) : T[i].clients # NoClient
                /\ \A i, j \in 1..Len(T) : ParentIdOf(T[i]) = ParentIdOf(T[j])

\* a group match mixing the parent client and its sub-client while a
\* transaction of another client was pending
C9_Witness ==
    /\ GroupDone
    /\ \E g \in 1..Len(groupResults) :
          /\ \E i \in 1..Len(groupResults[g].transactions) :
                groupResults[g].transactions[i].clients = ClientS
          /\ \E i \in 1..Len(groupResults[g].transactions) :
                groupResults[g].transactions[i].clients = ClientP
    /\ \E i \in 1..Len(transactions) : transactions[i].clients = ClientQ

\* The clients of the store, and the name of a transaction's top-level client
ClientTable == {ClientP, ClientS, ClientQ}
TopLevelName(t) == (CHOOSE c \in ClientTable : c.id = ParentIdOf(t)).name

\* C10: the recorded clientName of every GroupMatchResult is the display name
\* of its group, the top-level client's name (the parent's name when the
\* representative's client has a parent, its own name otherwise), and that
\* name matches the depositor.
C10_DisplayNameIsTopLevel ==
    GroupDone =>
        \A g \in 1..Len(groupResults) :
            /\ groupResults[g].clientName = TopLevelName(groupResults[g].transactions[1])
            /\ isNameMatch(groupResults[g].clientName, groupResults[g].bankRecord.depositor)

---------------------------------------------------------------------------
(* Re-runs of the matching core: inputs already marked in part or in whole *)

\* Orders of the parent client of one amount, in every state of settlement
MixedTxFields == [status : {"quote", "completed", "card"},
                  paid_at : {NoDate, DepositDate}]

\* Deposits of that client that pay one order or two, flagged matched or not
MixedRecFields == [amount : {1, 2}, is_matched : BOOLEAN]

InitMixed ==
    /\ driver = "core"
    /\ \E f \in [1..MaxTx -> MixedTxFields] :
          transactions = [i \in 1..MaxTx |->
              Transaction(i, 1, ClientP, NoDate, f[i].status, f[i].paid_at)]
    /\ \E g \in [1..MaxRec -> MixedRecFields] :
          bankRecords = [j \in 1..MaxRec |->
              BankRecord(j, g[j].amount, DepositDate, <<"a", "b">>, g[j].is_matched)]
    /\ pc = "start"
    /\ results = <<>> /\ groupResults = <<>>
    /\ usedRecordIds = {} /\ usedTransactionIds = {}
    /\ InitIdle

SpecMixed == InitMixed /\ [][NextCore]_vars

\* Every deposit is flagged matched and every transaction is settled
AllSettled ==
    /\ \A j \in 1..Len(bankRecords) : bankRecords[j].is_matched
    /\ \A i \in 1..Len(transactions) :
          /\ transactions[i].status \in {"completed", "card"}
          /\ transactions[i].paid_at # NoDate

\* C11: on inputs in which every deposit has is_matched = true and every
\* transaction is completed or card with paid_at set, performMatching returns
\* no MatchResult and performGroupMatching after it no GroupMatchResult.
C11_SettledInputsYieldNothing ==
    (driver = "core" /\ AllSettled) =>
        /\ pc \in {"single", "group"} => results = <<>>
        /\ pc = "group" => groupResults = <<>>

\* the whole pipeline has run on settled inputs whose amounts and names would
\* pair an order with the first deposit and two orders with the second
C11_Witness ==
    /\ GroupDone /\ AllSettled
    /\ bankRecords[1].amount = 1 /\ bankRecords[2].amount = 2
    /\ \E i \in 1..Len(transactions) : transactions[i].status = "card"
    /\ \E i \in 1..Len(transactions) : transactions[i].status = "completed"

\* A transaction is outstanding
Outstanding(t) == t.status \notin {"completed", "card"} /\ t.paid_at = NoDate

\* C12: no MatchResult and no GroupMatchResult holds a deposit flagged matched
\* or a transaction that is not outstanding (status completed or card, or
\* paid_at set), whatever mix of such records the input holds.
C12_OnlyOpenRecordsMatched ==
    driver = "core" =>
        /\ \A k \in 1..Len(results) :
              /\ ~ results[k].bankRecord.is_matched
              /\ Outstanding(results[k].transaction)
        /\ \A g \in 1..Len(groupResults) :
              /\ ~ groupResults[g].bankRecord.is_matched
              /\ \A i \in 1..Len(groupResults[g].transactions) :
                    Outstanding(groupResults[g].transactions[i])

\* a match was returned while a flagged deposit of the matched amount, an
\* unpaid card order and a paid order that is still a quote were in the input
C12_Witness ==
    /\ GroupDone
    /\ Len(results) = 1
    /\ \E j \in 1..Len(bankRecords) :
          /\ bankRecords[j].is_matched
          /\ bankRecords[j].amount = results[1].bankRecord.amount
    /\ \E i \in 1..Len(transactions) :
          transactions[i].status = "card" /\ transactions[i].paid_at = NoDate
    /\ \E i \in 1..Len(transactions) :
          transactions[i].status = "quote" /\ transactions[i].paid_at # NoDate

---------------------------------------------------------------------------
(* Inputs of the combination search *)

CandAmounts == {-1, 0, 1, 2, 3}
LongAmounts == {1, 2, 3}

Candidate(id, amount) == Transaction(id, amount, NoClient, NoDate, "quote", NoDate)

\* Candidate lists of up to MaxShort transactions in any order, and lists of
\* MaxLong - 2 .. MaxLong transactions given in ascending order of amount.
ShortAmountLists == UNION { [1..n -> CandAmounts] : n \in 0..MaxShort }
LongAmountLists ==
    { a \in UNION { [1..n -> LongAmounts] : n \in (MaxLong - 2)..MaxLong } :
        \A i \in 1..(Len(a) - 1) : a[i] <= a[i + 1] }

InitComb ==
    /\ driver = "comb"
    /\ \E a \in ShortAmountLists \cup LongAmountLists :
          cands = [i \in 1..Len(a) |-> Candidate(i, a[i])]
    /\ target \in -1..MaxTarget
    /\ combo = NoCombination
    /\ pc = "start"
    /\ transactions = <<>> /\ bankRecords = <<>>
    /\ results = <<>> /\ groupResults = <<>>
    /\ usedRecordIds = {} /\ usedTransactionIds = {}
    /\ parsedRecords = <<>> /\ step = "upload"
    /\ matchResults = <<>> /\ groupMatchResults = <<>>
    /\ unmatchedRecords = <<>> /\ unmatchedTransactions = <<>>
    /\ selectedRecordForGroup = NoRecord /\ selectedTransactionIds = {}
    /\ error = ""
    /\ rawData = NoSheet /\ parsed = <<>>
    /\ callStack = <<>> /\ ret = NoReturn /\ searchSorted = <<>>
    /\ clientNameArg = <<>> /\ depositorArg = <<>> /\ nameMatched = FALSE

\* Mutant of findMatchingCombinationArg: the list is sorted in place
findMatchingCombinationArgSorted(txs) == SortDesc(txs)

\* The list given to findMatchingCombination as the call leaves it: the sort
\* works on the copy [...transactions]
findMatchingCombinationArg(txs) == txs

RunFindMatchingCombination ==
    /\ driver = "comb" /\ pc = "start"
    /\ combo' = findMatchingCombination(cands, target)
    /\ cands' = findMatchingCombinationArg(cands)
    /\ pc' = "searched"
    /\ UNCHANGED <<driver, transactions, bankRecords, results, usedRecordIds,
                   usedTransactionIds, groupResults, target, pageVars, nameVars, parseVars, searchVars>>

NextComb == RunFindMatchingCombination

SpecComb == InitComb /\ [][NextComb]_vars

---------------------------------------------------------------------------
(* Properties of the combination search *)

CandAmount(i) == cands[i].amount

RECURSIVE SumOver(_)
SumOver(S) ==
    IF S = {} THEN 0
    ELSE LET i == CHOOSE i \in S : TRUE IN CandAmount(i) + SumOver(S \ {i})

\* The subsets of candidate positions K that have at least 2 members and
\* amounts summing to the target
Solutions(K) == { S \in SUBSET K : Cardinality(S) >= 2 /\ SumOver(S) = target }

\* Number of candidates placed before candidate i when the list is put in
\* amount-descending order, equal amounts in input order
DescRank(i) ==
    Cardinality({ j \in 1..Len(cands) :
                    \/ CandAmount(j) > CandAmount(i)
                    \/ CandAmount(j) = CandAmount(i) /\ j < i })

\* Positions of the first 10 candidates in amount-descending order
Kept == { i \in 1..Len(cands) : DescRank(i) < maxItemsCap }

Searched == driver = "comb" /\ pc = "searched"

\* C3: a returned combination has at least 2 pairwise-distinct transactions,
\* all taken from the candidate list, whose amounts sum exactly to the target.
C3_CombinationSound ==
    (Searched /\ combo.found) =>
        /\ Len(combo.selected) >= 2
        /\ \A i, j \in 1..Len(combo.selected) :
              i # j => combo.selected[i].id # combo.selected[j].id
        /\ Range(combo.selected) \subseteq Range(cands)
        /\ SumAmounts(combo.selected) = target

C3_Witness ==
    /\ Searched /\ combo.found
    /\ Len(combo.selected) = 3
    /\ Len(cands) = 4

\* C4: with at most 10 candidates of non-negative amounts and a target not
\* above their total, the search returns a combination exactly when some
\* subset of at least 2 candidates sums to the target.
C4_CompleteWithinCap ==
    ( /\ Searched
      /\ Len(cands) <= maxItemsCap
      /\ \A i \in 1..Len(cands) : CandAmount(i) >= 0
      /\ target <= SumAmounts(cands) )
    => (combo.found <=> Solutions(1..Len(cands)) # {})

\* a solution exists that does not start the include-first traversal, and a
\* zero amount has to be added after the target is reached
C4_Witness ==
    /\ Searched /\ combo.found
    /\ Len(cands) = 3
    /\ \A i \in 1..Len(cands) : CandAmount(i) >= 0
    /\ target = 2
    /\ Solutions(1..Len(cands)) = {{1, 3}}
    /\ CandAmount(1) = 0

\* C5: a returned combination uses only the first 10 candidates in
\* amount-descending order, and with more than 10 candidates the search
\* returns null when no subset of those 10 sums to the target, also when a
\* subset using an excluded candidate does.
C5_OnlyFirstTen ==
    Searched =>
        /\ combo.found =>
              \A k \in 1..Len(combo.selected) :
                 \E i \in Kept : cands[i] = combo.selected[k]
        /\ (Len(cands) > maxItemsCap /\ Solutions(Kept) = {}) => ~ combo.found

C5_Witness ==
    /\ Searched
    /\ Len(cands) > maxItemsCap
    /\ Solutions(Kept) = {}
    /\ Solutions(1..Len(cands)) # {}
    /\ ~ combo.found

\* The candidate that is last of 11 in amount-descending order (the smallest)
LastOfEleven(i) == DescRank(i) = maxItemsCap

\* A candidate that is the 11th-smallest of 11 (a largest one)
EleventhSmallest(i) == \A j \in 1..Len(cands) : CandAmount(j) <= CandAmount(i)

\* C6 as stated: 11 candidates, a solution exists and every solution uses the
\* 11th-smallest item: the search returns no combination.
C6_AsStated ==
    ( /\ Searched
      /\ Len(cands) = maxItemsCap + 1
      /\ Solutions(1..Len(cands)) # {}
      /\ \E i \in 1..Len(cands) :
            /\ EleventhSmallest(i)
            /\ \A S \in Solutions(1..Len(cands)) : i \in S )
    => ~ combo.found

\* C6 (amended): 11 candidates, a solution exists and every solution uses the
\* candidate that comes 11th in amount-descending order (the smallest one):
\* the search returns no combination.
C6_ScenarioE ==
    ( /\ Searched
      /\ Len(cands) = maxItemsCap + 1
      /\ Solutions(1..Len(cands)) # {}
      /\ \E i \in 1..Len(cands) :
            /\ LastOfEleven(i)
            /\ \A S \in Solutions(1..Len(cands)) : i \in S )
    => ~ combo.found

C6_Witness ==
    /\ Searched
    /\ Len(cands) = maxItemsCap + 1
    /\ Solutions(1..Len(cands)) # {}
    /\ \E i \in 1..Len(cands) :
          /\ LastOfEleven(i)
          /\ \A S \in Solutions(1..Len(cands)) : i \in S
    /\ ~ combo.found

---------------------------------------------------------------------------
(* The name matcher on its own inputs *)

\* Characters of the names: Latin letters of both cases, a space, a hyphen,
\* an underscore, a Hangul syllable and an accented Latin letter (e acute)
NameChars == {"a", "A", " ", "-", "_", "ga", "eacute"}

Names == UNION { [1..n -> NameChars] : n \in 0..MaxNameLen }

InitName ==
    /\ driver = "name"
    /\ clientNameArg \in Names
    /\ depositorArg \in Names
    /\ nameMatched = FALSE
    /\ pc = "start"
    /\ transactions = <<>> /\ bankRecords = <<>>
    /\ results = <<>> /\ groupResults = <<>>
    /\ usedRecordIds = {} /\ usedTransactionIds = {}
    /\ cands = <<>> /\ target = 0 /\ combo = NoCombination
    /\ parsedRecords = <<>> /\ step = "upload"
    /\ matchResults = <<>> /\ groupMatchResults = <<>>
    /\ unmatchedRecords = <<>> /\ unmatchedTransactions = <<>>
    /\ selectedRecordForGroup = NoRecord /\ selectedTransactionIds = {}
    /\ error = ""
    /\ rawData = NoSheet /\ parsed = <<>>
    /\ callStack = <<>> /\ ret = NoReturn /\ searchSorted = <<>>

RunIsNameMatch ==
    /\ driver = "name" /\ pc = "start"
    /\ nameMatched' = isNameMatch(clientNameArg, depositorArg)
    /\ pc' = "named"
    /\ UNCHANGED <<driver, transactions, bankRecords, results, usedRecordIds,
                   usedTransactionIds, groupResults, combVars, pageVars,
                   clientNameArg, depositorArg, parseVars, searchVars>>

NextName == RunIsNameMatch

SpecName == InitName /\ [][NextName]_vars

Named == driver = "name" /\ pc = "named"

\* Letters and digits of the alphabet
LettersAndDigits == {"a", "b", "c", "A", "B", "C", "0", "1", "ga", "hih", "eacute"}

\* A name with its whitespace and its non-letter/digit characters removed,
\* lowercased
LettersAndDigitsOf(str) ==
    MapLower(SelectSeq(str, LAMBDA c : c \in LettersAndDigits))

\* C14: isNameMatch returns false if either name is empty; otherwise it
\* returns true exactly when, with whitespace and non-letter/digit characters
\* removed and the rest lowercased, one name contains the other as a
\* contiguous substring, in either direction.
C14_MatchOnLettersAndDigits ==
    Named =>
        nameMatched =
            IF clientNameArg = <<>> \/ depositorArg = <<>> THEN FALSE
            ELSE \/ includes(LettersAndDigitsOf(depositorArg),
                             LettersAndDigitsOf(clientNameArg))
                 \/ includes(LettersAndDigitsOf(clientNameArg),
                             LettersAndDigitsOf(depositorArg))

---------------------------------------------------------------------------
(* The three functions of the matching core on their own inputs *)

InitPure == InitMixed \/ InitComb

NextPure == NextCore \/ NextComb

SpecPure == InitPure /\ [][NextPure]_vars

---------------------------------------------------------------------------
(* Upload page: single matching on upload, manual group matching *)

\* Orders of the store: of the parent client, undated, dated between the two
\* deposit dates, or dated the year before
PageTxFields ==
    << [amount |-> 1, clients |-> ClientP, order_date |-> NoDate],
       [amount |-> 1, clients |-> ClientP, order_date |-> <<2023, 12, 31>>],
       [amount |-> 1, clients |-> ClientP, order_date |-> <<2024, 1, 3>>],
       [amount |-> 2, clients |-> ClientP, order_date |-> NoDate],
       [amount |-> 2, clients |-> ClientP, order_date |-> <<2024, 1, 3>>] >>

\* Rows of an uploaded file: a deposit of 2 on the deposit date, a deposit of
\* 3 two days later
LaterDepositDate == <<2024, 1, 4>>

PageRecFields ==
    << [amount |-> 2, depositor |-> <<"a", "b">>, transaction_date |-> DepositDate],
       [amount |-> 3, depositor |-> <<"a", "b">>, transaction_date |-> LaterDepositDate] >>

\* The rows of a store or of a file, listed in the order of the kinds above
\* (a bank statement lists its rows by date)
Listed(n, kinds) ==
    { f \in [1..n -> 1..Len(kinds)] : \A i \in 1..(n - 1) : f[i] <= f[i + 1] }

PageDrivers == {"page", "faulty"}

InitPage ==
    /\ driver = "page"
    /\ \E f \in Listed(MaxTx, PageTxFields) :
          transactions = MakeTransactions([i \in 1..MaxTx |-> PageTxFields[f[i]]])
    /\ bankRecords = <<>>
    /\ pc = "start"
    /\ results = <<>> /\ groupResults = <<>>
    /\ usedRecordIds = {} /\ usedTransactionIds = {}
    /\ InitIdle

\* The manual panel is rendered
ManualPanelShown ==
    /\ step = "matching"
    /\ Len(unmatchedRecords) > 0
    /\ Len(unmatchedTransactions) > 0

\* Mutant of EligibleFor: orders dated after the deposit are listed as well
EligibleForSameYear(record, t) ==
    ~ ( /\ t.order_date # NoDate
        /\ Year(t.order_date) # Year(record.transaction_date) )

\* Transactions listed for the selected deposit
EligibleFor(record, t) ==
    /\ ~ ( /\ t.order_date # NoDate
           /\ Year(t.order_date) # Year(record.transaction_date) )
    /\ IF t.order_date = NoDate THEN TRUE
       ELSE ~ DateAfter(t.order_date, record.transaction_date)

selectedTransactionsTotal ==
    SumAmounts(SelectSeq(unmatchedTransactions,
                         LAMBDA t : t.id \in selectedTransactionIds))

\* disabled attribute of the confirm button
ConfirmDisabled ==
    \/ Cardinality(selectedTransactionIds) < 2
    \/ selectedTransactionsTotal # selectedRecordForGroup.amount

\* The amount shown after the variance label, as given to formatCurrency
varianceDisplayed == selectedRecordForGroup.amount - selectedTransactionsTotal

HandleFileChange ==
    /\ driver \in PageDrivers /\ step = "upload"
    /\ \E n \in 0..MaxRec : \E f \in Listed(n, PageRecFields) :
          LET g == [j \in 1..n |-> PageRecFields[f[j]]]
          IN
          IF n = 0
          THEN /\ error' \in {"no_records", "parse_failed"}
               /\ UNCHANGED <<parsedRecords, step>>
          ELSE /\ error' = ""
               /\ parsedRecords' = [j \in 1..n |->
                     [transaction_date |-> g[j].transaction_date,
                      depositor |-> g[j].depositor,
                      amount |-> g[j].amount]]
               /\ step' = "preview"
    /\ UNCHANGED <<driver, coreVars, combVars, nameVars, parseVars, searchVars, matchResults, groupMatchResults,
                   unmatchedRecords, unmatchedTransactions, selectedRecordForGroup,
                   selectedTransactionIds>>

\* The try block of handleUpload
HandleUploadMatched ==
    /\ LET fetched == SelectSeq(transactions, IsPending)
           bankRecordsFromFile ==
               [j \in 1..Len(parsedRecords) |->
                   BankRecord(j, parsedRecords[j].amount,
                              parsedRecords[j].transaction_date,
                              parsedRecords[j].depositor, FALSE)]
           matches == performMatching(fetched, bankRecordsFromFile)
           usedRecs == { matches[k].bankRecord.id : k \in 1..Len(matches) }
           usedTxs == { matches[k].transaction.id : k \in 1..Len(matches) }
       IN  /\ matchResults' = matches
           /\ groupMatchResults' = <<>>
           /\ unmatchedRecords' =
                 SelectSeq(bankRecordsFromFile, LAMBDA r : r.id \notin usedRecs)
           /\ unmatchedTransactions' =
                 SelectSeq(fetched, LAMBDA t : t.id \notin usedTxs)
    /\ step' = "matching"
    /\ error' = ""

\* The try block runs to its end, or the catch sets the message
HandleUpload ==
    /\ driver \in PageDrivers /\ step = "preview"
    /\ \/ HandleUploadMatched
       \/ /\ driver = "faulty"
          /\ error' = "upload_failed"
          /\ UNCHANGED <<matchResults, groupMatchResults, unmatchedRecords,
                         unmatchedTransactions, step>>
    /\ UNCHANGED <<driver, coreVars, combVars, nameVars, parseVars, searchVars, parsedRecords,
                   selectedRecordForGroup, selectedTransactionIds>>

HandleReset ==
    /\ driver \in PageDrivers /\ step \in {"preview", "matching", "complete"}
    /\ step' = "upload"
    /\ parsedRecords' = <<>>
    /\ matchResults' = <<>>
    /\ groupMatchResults' = <<>>
    /\ unmatchedRecords' = <<>>
    /\ unmatchedTransactions' = <<>>
    /\ selectedRecordForGroup' = NoRecord
    /\ selectedTransactionIds' = {}
    /\ error' = ""
    /\ UNCHANGED <<driver, coreVars, combVars, nameVars, parseVars, searchVars>>

HandleSelectRecordForGroup ==
    /\ driver \in PageDrivers /\ ManualPanelShown
    /\ \E j \in 1..Len(unmatchedRecords) :
          LET record == unmatchedRecords[j]
          IN  IF selectedRecordForGroup.id = record.id
              THEN /\ selectedRecordForGroup' = NoRecord
                   /\ selectedTransactionIds' = {}
              ELSE /\ selectedRecordForGroup' = record
                   /\ selectedTransactionIds' = {}
    /\ UNCHANGED <<driver, coreVars, combVars, nameVars, parseVars, searchVars, parsedRecords, step, matchResults,
                   groupMatchResults, unmatchedRecords, unmatchedTransactions, error>>

HandleToggleTransaction ==
    /\ driver \in PageDrivers /\ ManualPanelShown
    /\ selectedRecordForGroup # NoRecord
    /\ \E i \in 1..Len(unmatchedTransactions) :
          /\ EligibleFor(selectedRecordForGroup, unmatchedTransactions[i])
          /\ LET transactionId == unmatchedTransactions[i].id
             IN  selectedTransactionIds' =
                    IF transactionId \in selectedTransactionIds
                    THEN selectedTransactionIds \ {transactionId}
                    ELSE selectedTransactionIds \cup {transactionId}
    /\ UNCHANGED <<driver, coreVars, combVars, nameVars, parseVars, searchVars, parsedRecords, step, matchResults,
                   groupMatchResults, unmatchedRecords, unmatchedTransactions,
                   selectedRecordForGroup, error>>

\* '알 수 없음' when the first selected transaction has no client name
UnknownName == <<"?">>

\* Mutant of ConfirmGroupMatch: the deposit stays in the unmatched pool
ConfirmGroupMatchKeepingDeposit(groups, records, txs, record, ids) ==
    LET selectedTxs == SelectSeq(txs, LAMBDA t : t.id \in ids)
    IN  [groupMatchResults |-> Append(groups,
             [transactions |-> selectedTxs,
              bankRecord |-> record,
              clientName |-> IF selectedTxs # <<>> /\ ClientNameOf(selectedTxs[1]) # <<>>
                             THEN ClientNameOf(selectedTxs[1])
                             ELSE UnknownName,
              totalAmount |-> record.amount]),
         unmatchedRecords |-> records,
         unmatchedTransactions |-> SelectSeq(txs, LAMBDA t : t.id \notin ids)]

\* The accepted group matches and the two pools as set by a confirmation that
\* passed the checks: newGroupMatch appended, the deposit and the selected
\* transactions filtered out
ConfirmGroupMatch(groups, records, txs, record, ids) ==
    LET selectedTxs == SelectSeq(txs, LAMBDA t : t.id \in ids)
    IN  [groupMatchResults |-> Append(groups,
             [transactions |-> selectedTxs,
              bankRecord |-> record,
              clientName |-> IF selectedTxs # <<>> /\ ClientNameOf(selectedTxs[1]) # <<>>
                             THEN ClientNameOf(selectedTxs[1])
                             ELSE UnknownName,
              totalAmount |-> record.amount]),
         unmatchedRecords |-> SelectSeq(records, LAMBDA r : r.id # record.id),
         unmatchedTransactions |-> SelectSeq(txs, LAMBDA t : t.id \notin ids)]

\* Mutant of ConfirmGroupMatchOutcome: the sum is not compared with the deposit
ConfirmGroupMatchOutcomeUnchecked ==
    IF selectedRecordForGroup = NoRecord \/ Cardinality(selectedTransactionIds) < 2
    THEN [groupMatchResults |-> groupMatchResults,
          unmatchedRecords |-> unmatchedRecords,
          unmatchedTransactions |-> unmatchedTransactions,
          selectedRecordForGroup |-> selectedRecordForGroup,
          selectedTransactionIds |-> selectedTransactionIds,
          error |-> error]
    ELSE LET confirmed == ConfirmGroupMatch(groupMatchResults, unmatchedRecords,
                                            unmatchedTransactions,
                                            selectedRecordForGroup,
                                            selectedTransactionIds)
         IN  [groupMatchResults |-> confirmed.groupMatchResults,
              unmatchedRecords |-> confirmed.unmatchedRecords,
              unmatchedTransactions |-> confirmed.unmatchedTransactions,
              selectedRecordForGroup |-> NoRecord,
              selectedTransactionIds |-> {},
              error |-> ""]

\* The state handleConfirmGroupMatch leaves: the early return, the mismatch
\* message, or the confirmation
ConfirmGroupMatchOutcome ==
    IF selectedRecordForGroup = NoRecord \/ Cardinality(selectedTransactionIds) < 2
    THEN [groupMatchResults |-> groupMatchResults,
          unmatchedRecords |-> unmatchedRecords,
          unmatchedTransactions |-> unmatchedTransactions,
          selectedRecordForGroup |-> selectedRecordForGroup,
          selectedTransactionIds |-> selectedTransactionIds,
          error |-> error]
    ELSE IF selectedTransactionsTotal # selectedRecordForGroup.amount
    THEN [groupMatchResults |-> groupMatchResults,
          unmatchedRecords |-> unmatchedRecords,
          unmatchedTransactions |-> unmatchedTransactions,
          selectedRecordForGroup |-> selectedRecordForGroup,
          selectedTransactionIds |-> selectedTransactionIds,
          error |-> "amount_mismatch"]
    ELSE LET confirmed == ConfirmGroupMatch(groupMatchResults, unmatchedRecords,
                                            unmatchedTransactions,
                                            selectedRecordForGroup,
                                            selectedTransactionIds)
         IN  [groupMatchResults |-> confirmed.groupMatchResults,
              unmatchedRecords |-> confirmed.unmatchedRecords,
              unmatchedTransactions |-> confirmed.unmatchedTransactions,
              selectedRecordForGroup |-> NoRecord,
              selectedTransactionIds |-> {},
              error |-> ""]

HandleConfirmGroupMatch ==
    /\ driver \in PageDrivers /\ ManualPanelShown
    /\ LET outcome == ConfirmGroupMatchOutcome
       IN  /\ groupMatchResults' = outcome.groupMatchResults
           /\ unmatchedRecords' = outcome.unmatchedRecords
           /\ unmatchedTransactions' = outcome.unmatchedTransactions
           /\ selectedRecordForGroup' = outcome.selectedRecordForGroup
           /\ selectedTransactionIds' = outcome.selectedTransactionIds
           /\ error' = outcome.error
    /\ UNCHANGED <<driver, coreVars, combVars, nameVars, parseVars, searchVars, parsedRecords, step, matchResults>>

\* Mutant of CancelGroupMatch: only the deposit goes back to its pool
CancelGroupMatchDepositOnly(groups, records, txs, index) ==
    [groupMatchResults |-> [k \in 1..(Len(groups) - 1) |->
                               IF k < index THEN groups[k] ELSE groups[k + 1]],
     unmatchedRecords |-> Append(records, groups[index].bankRecord),
     unmatchedTransactions |-> txs]

\* Mutant of CancelGroupMatch: the cancelled group stays in the accepted list
CancelGroupMatchKeepingGroup(groups, records, txs, index) ==
    [groupMatchResults |-> groups,
     unmatchedRecords |-> Append(records, groups[index].bankRecord),
     unmatchedTransactions |-> txs \o groups[index].transactions]

\* The accepted group matches and the two pools as set by a cancellation
CancelGroupMatch(groups, records, txs, index) ==
    [groupMatchResults |-> [k \in 1..(Len(groups) - 1) |->
                               IF k < index THEN groups[k] ELSE groups[k + 1]],
     unmatchedRecords |-> Append(records, groups[index].bankRecord),
     unmatchedTransactions |-> txs \o groups[index].transactions]

HandleCancelGroupMatch ==
    /\ driver \in PageDrivers /\ step = "matching"
    /\ \E index \in 1..Len(groupMatchResults) :
          LET cancelled == CancelGroupMatch(groupMatchResults, unmatchedRecords,
                                            unmatchedTransactions, index)
          IN  /\ unmatchedRecords' = cancelled.unmatchedRecords
              /\ unmatchedTransactions' = cancelled.unmatchedTransactions
              /\ groupMatchResults' = cancelled.groupMatchResults
    /\ UNCHANGED <<driver, coreVars, combVars, nameVars, parseVars, searchVars, parsedRecords, step, matchResults,
                   selectedRecordForGroup, selectedTransactionIds, error>>

\* Mutant of UpdatePaid: the status is set, paid_at is left as it was
UpdatePaidStatusOnly(txs, id, paidAt) ==
    [i \in DOMAIN txs |->
        IF txs[i].id = id THEN [txs[i] EXCEPT !.status = "completed"] ELSE txs[i]]

\* .update({ status: 'completed', paid_at }).eq('id', id) on the store
UpdatePaid(txs, id, paidAt) ==
    [i \in DOMAIN txs |->
        IF txs[i].id = id
        THEN [txs[i] EXCEPT !.status = "completed", !.paid_at = paidAt]
        ELSE txs[i]]

\* The updates of the first loop, in order
SingleUpdates(matches) ==
    [k \in 1..Len(matches) |->
        [id |-> matches[k].transaction.id,
         paid_at |-> matches[k].bankRecord.transaction_date]]

\* The updates of the nested loops, in order
RECURSIVE GroupUpdates(_)
GroupUpdates(groups) ==
    IF groups = <<>> THEN <<>>
    ELSE [i \in 1..Len(Head(groups).transactions) |->
             [id |-> Head(groups).transactions[i].id,
              paid_at |-> Head(groups).bankRecord.transaction_date]]
         \o GroupUpdates(Tail(groups))

\* Mutant of ApplyUpdates: the updates after the n-th reach the store as well
RECURSIVE ApplyUpdatesAll(_, _, _)
ApplyUpdatesAll(txs, updates, n) ==
    IF updates = <<>> THEN txs
    ELSE ApplyUpdatesAll(UpdatePaid(txs, Head(updates).id, Head(updates).paid_at),
                         Tail(updates), n)

\* The store after the first n updates
RECURSIVE ApplyUpdates(_, _, _)
ApplyUpdates(txs, updates, n) ==
    IF n = 0 THEN txs
    ELSE UpdatePaid(ApplyUpdates(txs, updates, n - 1), updates[n].id, updates[n].paid_at)

\* Every awaited update resolves and the step becomes complete, or one of
\* them throws: the updates before it are in the store and the message is set
HandleApplyMatches ==
    /\ driver \in PageDrivers /\ step = "matching"
    /\ Len(matchResults) > 0 \/ Len(groupMatchResults) > 0
    /\ LET updates == SingleUpdates(matchResults) \o GroupUpdates(groupMatchResults)
       IN  \E n \in (IF driver = "faulty" THEN 0..Len(updates) ELSE {Len(updates)}) :
              /\ transactions' = ApplyUpdates(transactions, updates, n)
              /\ IF n = Len(updates)
                 THEN step' = "complete" /\ error' = error
                 ELSE step' = step /\ error' = "apply_failed"
    /\ UNCHANGED <<driver, bankRecords, pc, results, usedRecordIds, usedTransactionIds,
                   groupResults, combVars, nameVars, parseVars, searchVars, parsedRecords, matchResults,
                   groupMatchResults, unmatchedRecords, unmatchedTransactions,
                   selectedRecordForGroup, selectedTransactionIds>>

NextPage ==
    \/ HandleFileChange
    \/ HandleUpload
    \/ HandleReset
    \/ HandleSelectRecordForGroup
    \/ HandleToggleTransaction
    \/ HandleConfirmGroupMatch
    \/ HandleCancelGroupMatch
    \/ HandleApplyMatches

SpecPage == InitPage /\ [][NextPage]_vars

\* The page over a store whose updates may throw
InitFaulty ==
    /\ driver = "faulty"
    /\ \E f \in Listed(MaxTx, PageTxFields) :
          transactions = MakeTransactions([i \in 1..MaxTx |-> PageTxFields[f[i]]])
    /\ bankRecords = <<>>
    /\ pc = "start"
    /\ results = <<>> /\ groupResults = <<>>
    /\ usedRecordIds = {} /\ usedTransactionIds = {}
    /\ InitIdle

SpecFaulty == InitFaulty /\ [][NextPage]_vars

---------------------------------------------------------------------------
(* Properties of the upload page *)

\* The manual panel is shown with a deposit selected
DepositSelected ==
    /\ driver \in PageDrivers /\ ManualPanelShown
    /\ selectedRecordForGroup # NoRecord

\* The selection's sum differs from the selected deposit's amount
NonZeroVariance == selectedTransactionsTotal # selectedRecordForGroup.amount

\* A run of the handler leaves the accepted group matches and both pools alone
ConfirmAddsNothing ==
    /\ ConfirmGroupMatchOutcome.groupMatchResults = groupMatchResults
    /\ ConfirmGroupMatchOutcome.unmatchedRecords = unmatchedRecords
    /\ ConfirmGroupMatchOutcome.unmatchedTransactions = unmatchedTransactions

\* C15 as stated: confirmation takes effect only with a deposit selected, at
\* least 2 transactions selected and a sum equal to the deposit amount; every
\* confirm attempt with a non-zero variance adds no group match, sets an
\* error message and leaves the accepted set and both pools unchanged.
C15_AsStated ==
    (driver \in PageDrivers /\ ManualPanelShown) =>
        /\ ~ ConfirmAddsNothing =>
              /\ selectedRecordForGroup # NoRecord
              /\ Cardinality(selectedTransactionIds) >= 2
              /\ ~ NonZeroVariance
        /\ (selectedRecordForGroup # NoRecord /\ NonZeroVariance) =>
              /\ ConfirmAddsNothing
              /\ ConfirmGroupMatchOutcome.error # ""

\* C15 (amended): confirmation takes effect only with a deposit selected, at
\* least 2 transactions selected and a sum equal to the deposit amount; a
\* confirm attempt with a non-zero variance adds no group match and leaves the
\* accepted set and both pools unchanged, and with at least 2 transactions
\* selected it sets the mismatch message.
C15_ConfirmGuarded ==
    (driver \in PageDrivers /\ ManualPanelShown) =>
        /\ ~ ConfirmAddsNothing =>
              /\ selectedRecordForGroup # NoRecord
              /\ Cardinality(selectedTransactionIds) >= 2
              /\ ~ NonZeroVariance
        /\ (selectedRecordForGroup # NoRecord /\ NonZeroVariance) =>
              /\ ConfirmAddsNothing
              /\ Cardinality(selectedTransactionIds) >= 2 =>
                    ConfirmGroupMatchOutcome.error = "amount_mismatch"

\* the mismatch message is up for a selection of 2 that misses the amount
C15_Witness ==
    /\ DepositSelected
    /\ error = "amount_mismatch"
    /\ Cardinality(selectedTransactionIds) = 2
    /\ NonZeroVariance
    /\ groupMatchResults = <<>>

\* C16: with a selection summing to less than the selected deposit (Scenario
\* D: 49000 against 50000) confirmation is disabled and the displayed signed
\* variance is the selection sum minus the deposit amount (-1000).
C16_VarianceIsSumMinusDeposit ==
    ( /\ DepositSelected
      /\ Cardinality(selectedTransactionIds) >= 2
      /\ selectedTransactionsTotal < selectedRecordForGroup.amount )
    => /\ ConfirmDisabled
       /\ varianceDisplayed = selectedTransactionsTotal - selectedRecordForGroup.amount

\* C17: a successful manual confirm appends exactly one GroupMatchResult, the
\* selected deposit with exactly the selected transactions, removes that
\* deposit from the unmatched deposits and exactly the selected transactions
\* from the unmatched transactions, clears the selection, and leaves the
\* single-match results, the earlier group matches and all other pool members
\* unchanged.
C17_ConfirmEffect ==
    [][ ( /\ selectedRecordForGroup # NoRecord
          /\ ~ ConfirmDisabled
          /\ HandleConfirmGroupMatch )
        => /\ Len(groupMatchResults') = Len(groupMatchResults) + 1
           /\ SubSeq(groupMatchResults', 1, Len(groupMatchResults)) = groupMatchResults
           /\ LET g == groupMatchResults'[Len(groupMatchResults')]
              IN  /\ g.bankRecord = selectedRecordForGroup
                  /\ Ids(g.transactions) = selectedTransactionIds
                  /\ Len(g.transactions) = Cardinality(selectedTransactionIds)
                  /\ Range(g.transactions) \subseteq Range(unmatchedTransactions)
           /\ Range(unmatchedRecords') = Range(unmatchedRecords) \ {selectedRecordForGroup}
           /\ Len(unmatchedRecords') = Len(unmatchedRecords) - 1
           /\ Range(unmatchedTransactions') =
                 { t \in Range(unmatchedTransactions) : t.id \notin selectedTransactionIds }
           /\ Len(unmatchedTransactions') =
                 Len(unmatchedTransactions) - Cardinality(selectedTransactionIds)
           /\ selectedRecordForGroup' = NoRecord
           /\ selectedTransactionIds' = {}
           /\ matchResults' = matchResults ]_vars

\* a confirmation of 2 transactions that left a deposit and a transaction in
\* the pools
C17_Witness ==
    /\ driver = "page" /\ step = "matching"
    /\ Len(groupMatchResults) = 1
    /\ Len(groupMatchResults[1].transactions) = 2
    /\ Len(unmatchedRecords) = 1
    /\ Len(unmatchedTransactions) = 1
    /\ selectedRecordForGroup = NoRecord

\* A confirmation followed by the cancellation of the match it added
ConfirmThenCancel ==
    LET confirmed == ConfirmGroupMatchOutcome
    IN  CancelGroupMatch(confirmed.groupMatchResults, confirmed.unmatchedRecords,
                         confirmed.unmatchedTransactions,
                         Len(confirmed.groupMatchResults))

\* C18: cancelling a confirmed manual group match removes exactly that
\* GroupMatchResult from the accepted set and returns its deposit and all of
\* its transactions to the unmatched pools; a confirm followed by the cancel
\* of the same match leaves the accepted set and the membership of both
\* pools as they were before the confirm.
C18_CancelRestores ==
    /\ [] ( (DepositSelected /\ ~ ConfirmDisabled) =>
             /\ ConfirmThenCancel.groupMatchResults = groupMatchResults
             /\ Range(ConfirmThenCancel.unmatchedRecords) = Range(unmatchedRecords)
             /\ Len(ConfirmThenCancel.unmatchedRecords) = Len(unmatchedRecords)
             /\ Range(ConfirmThenCancel.unmatchedTransactions)
                   = Range(unmatchedTransactions)
             /\ Len(ConfirmThenCancel.unmatchedTransactions)
                   = Len(unmatchedTransactions) )
    /\ [][ HandleCancelGroupMatch =>
             \E index \in 1..Len(groupMatchResults) :
                /\ Len(groupMatchResults') = Len(groupMatchResults) - 1
                /\ \A k \in 1..Len(groupMatchResults') :
                      groupMatchResults'[k] =
                         IF k < index THEN groupMatchResults[k]
                         ELSE groupMatchResults[k + 1]
                /\ Range(unmatchedRecords') =
                      Range(unmatchedRecords) \cup {groupMatchResults[index].bankRecord}
                /\ Len(unmatchedRecords') = Len(unmatchedRecords) + 1
                /\ Range(unmatchedTransactions') =
                      Range(unmatchedTransactions)
                         \cup Range(groupMatchResults[index].transactions)
                /\ Len(unmatchedTransactions') =
                      Len(unmatchedTransactions)
                         + Len(groupMatchResults[index].transactions) ]_vars

\* no group match is accepted and a cancellation has put transactions back
\* behind a transaction of a higher id
C18_Witness ==
    /\ driver = "page" /\ step = "matching"
    /\ groupMatchResults = <<>>
    /\ Len(unmatchedRecords) = 2
    /\ \E i \in 1..(Len(unmatchedTransactions) - 1) :
          unmatchedTransactions[i].id > unmatchedTransactions[i + 1].id

\* C19: once the accepted results are applied (no update threw and the step
\* is complete), every transaction of a MatchResult is completed with paid_at
\* equal to its deposit's transaction date, and every transaction of a
\* GroupMatchResult is completed with paid_at equal to the date of the group's
\* deposit.
C19_AppliedAreCompleted ==
    (driver \in PageDrivers /\ step = "complete") =>
        /\ \A k \in 1..Len(matchResults) :
              /\ Stored(matchResults[k].transaction.id).status = "completed"
              /\ Stored(matchResults[k].transaction.id).paid_at
                    = matchResults[k].bankRecord.transaction_date
        /\ \A g \in 1..Len(groupMatchResults) :
              \A i \in 1..Len(groupMatchResults[g].transactions) :
                 /\ Stored(groupMatchResults[g].transactions[i].id).status = "completed"
                 /\ Stored(groupMatchResults[g].transactions[i].id).paid_at
                       = groupMatchResults[g].bankRecord.transaction_date

\* a single match and a group match of deposits of different dates applied
C19_Witness ==
    /\ driver = "page" /\ step = "complete"
    /\ Len(matchResults) = 1
    /\ Len(groupMatchResults) = 1
    /\ matchResults[1].bankRecord.transaction_date
          # groupMatchResults[1].bankRecord.transaction_date

\* C20: once the accepted results are applied, every deposit of a MatchResult
\* or of a GroupMatchResult is marked matched (is_matched = true).
C20_AppliedDepositsMarked ==
    (driver \in PageDrivers /\ step = "complete") =>
        /\ \A k \in 1..Len(matchResults) : matchResults[k].bankRecord.is_matched
        /\ \A g \in 1..Len(groupMatchResults) :
              groupMatchResults[g].bankRecord.is_matched

\* The updates that applying the accepted results issues, in order
AcceptedUpdates == SingleUpdates(matchResults) \o GroupUpdates(groupMatchResults)

\* A run of handleApplyMatches that changed the store, completed, or set its
\* message
ApplyObserved ==
    /\ driver \in PageDrivers /\ step = "matching"
    /\ \/ transactions' # transactions
       \/ step' = "complete"
       \/ error' = "apply_failed" /\ error # "apply_failed"

\* The rows of the first n updates are completed with the date of their
\* deposit and every other row of the store is as it was
PrefixApplied(n) ==
    /\ Len(transactions') = Len(transactions)
    /\ \A i \in 1..Len(transactions) :
          IF \E k \in 1..n : AcceptedUpdates[k].id = transactions[i].id
          THEN \E k \in 1..n :
                  /\ AcceptedUpdates[k].id = transactions[i].id
                  /\ transactions'[i] =
                        [transactions[i] EXCEPT !.status = "completed",
                                                !.paid_at = AcceptedUpdates[k].paid_at]
          ELSE transactions'[i] = transactions[i]

---------------------------------------------------------------------------
(* Order of the combination search *)

\* The members of S that come no later than place r of the descending order
UpTo(S, r) == { i \in S : DescRank(i) <= r }

\* The traversal reaches the selection S: it starts (the empty selection does
\* not exceed the target) and no shorter selection on the way to S exceeds
\* the target or is accepted itself
Traversed(S) ==
    /\ 0 <= target
    /\ \A r \in 0..(Len(cands) - 1) :
          LET P == UpTo(S, r)
          IN  (P # {} /\ P # S) =>
                 /\ SumOver(P) <= target
                 /\ ~ (SumOver(P) = target /\ Cardinality(P) >= 2)

\* The answers the traversal can reach
TraversedSolutions == { S \in Solutions(Kept) : Traversed(S) }

\* Include before exclude: of two selections, the one holding the earliest
\* candidate (in descending order) they differ in is reached first
ReachedBefore(S, R) ==
    LET D == (S \ R) \cup (R \ S)
        first == CHOOSE i \in D : \A j \in D : DescRank(i) <= DescRank(j)
    IN  first \in S

\* C25: when subsets of at least 2 candidates sum to the target, the search
\* returns the one the depth-first traversal reaches first, taking a candidate
\* before leaving it out, over the candidates in descending order of amount
\* (equal amounts in input order); the returned list is in that order.
C25_FirstInTraversalOrder ==
    (Searched /\ TraversedSolutions # {}) =>
        /\ combo.found
        /\ Ids(combo.selected) \in { { cands[i].id : i \in S } : S \in TraversedSolutions }
        /\ LET S == { i \in 1..Len(cands) : cands[i].id \in Ids(combo.selected) }
           IN  \A R \in TraversedSolutions \ {S} : ReachedBefore(S, R)
        /\ \A k \in 1..(Len(combo.selected) - 1) :
              LET a == CHOOSE i \in 1..Len(cands) : cands[i].id = combo.selected[k].id
                  b == CHOOSE i \in 1..Len(cands) : cands[i].id = combo.selected[k + 1].id
              IN  DescRank(a) < DescRank(b)

\* candidates 1, 2, 1, 2 and target 3: three subsets of two sum to 3 besides
\* the returned one, which is the first 2 with the first 1, listed 2 then 1
C25_Witness ==
    /\ Searched /\ combo.found
    /\ Len(cands) = 4 /\ target = 3
    /\ \A i \in 1..4 : CandAmount(i) = (IF i \in {1, 3} THEN 1 ELSE 2)
    /\ Cardinality(Solutions(Kept)) = 4
    /\ combo.selected = <<cands[2], cands[1]>>

---------------------------------------------------------------------------
(* Manual group matches: eligibility and pools *)

\* C27: every transaction of a manually confirmed GroupMatchResult was
\* eligible for the deposit of the result: it has no order date, or its
\* order date is in the year of the deposit's date and not after it; this
\* holds after any sequence of select, toggle, confirm and cancel.
C27_ConfirmedWereEligible ==
    driver \in PageDrivers =>
        \A g \in 1..Len(groupMatchResults) :
           \A i \in 1..Len(groupMatchResults[g].transactions) :
              LET t == groupMatchResults[g].transactions[i]
                  d == groupMatchResults[g].bankRecord.transaction_date
              IN  \/ t.order_date = NoDate
                  \/ /\ t.order_date[1] = d[1]
                     /\ ~ DateAfter(t.order_date, d)

\* a dated order confirmed for the later deposit while the earlier deposit,
\* which it is dated after, and an order of the year before are still in
\* the pools
C27_Witness ==
    /\ driver = "page"
    /\ Len(groupMatchResults) = 1
    /\ groupMatchResults[1].bankRecord.transaction_date = LaterDepositDate
    /\ \E i \in 1..Len(groupMatchResults[1].transactions) :
          groupMatchResults[1].transactions[i].order_date = <<2024, 1, 3>>
    /\ \E j \in 1..Len(unmatchedRecords) :
          unmatchedRecords[j].transaction_date = DepositDate
    /\ \E i \in 1..Len(unmatchedTransactions) :
          unmatchedTransactions[i].order_date = <<2023, 12, 31>>

\* The transactions fetched by the upload and the deposits made of the file
Fetched == SelectSeq(transactions, IsPending)
Uploaded ==
    [j \in 1..Len(parsedRecords) |->
        BankRecord(j, parsedRecords[j].amount, parsedRecords[j].transaction_date,
                   parsedRecords[j].depositor, FALSE)]

\* The places that hold transaction t: single matches, members of accepted
\* group matches, entries of the unmatched pool
TransactionPlaces(t) ==
    { <<"single", k, 0>> : k \in { k \in 1..Len(matchResults) :
                                     matchResults[k].transaction = t } }
    \cup UNION { { <<"group", g, i>> :
                     i \in { i \in 1..Len(groupMatchResults[g].transactions) :
                                groupMatchResults[g].transactions[i] = t } } :
                 g \in 1..Len(groupMatchResults) }
    \cup { <<"pool", i, 0>> : i \in { i \in 1..Len(unmatchedTransactions) :
                                       unmatchedTransactions[i] = t } }

\* The places that hold deposit r
DepositPlaces(r) ==
    { <<"single", k>> : k \in { k \in 1..Len(matchResults) :
                                  matchResults[k].bankRecord = r } }
    \cup { <<"group", g>> : g \in { g \in 1..Len(groupMatchResults) :
                                     groupMatchResults[g].bankRecord = r } }
    \cup { <<"pool", j>> : j \in { j \in 1..Len(unmatchedRecords) :
                                    unmatchedRecords[j] = r } }

\* Everything held by the results and the pools
HeldTransactions ==
    { matchResults[k].transaction : k \in 1..Len(matchResults) }
    \cup UNION { Range(groupMatchResults[g].transactions) : g \in 1..Len(groupMatchResults) }
    \cup Range(unmatchedTransactions)
HeldDeposits ==
    { matchResults[k].bankRecord : k \in 1..Len(matchResults) }
    \cup { groupMatchResults[g].bankRecord : g \in 1..Len(groupMatchResults) }
    \cup Range(unmatchedRecords)

\* C28: after the matching run and any sequence of select, toggle, confirm
\* and cancel, the single matches, the accepted group matches and the two
\* unmatched pools partition the inputs: every fetched transaction and every
\* uploaded deposit is held in exactly one place (one MatchResult, one
\* GroupMatchResult, or once in its pool), and nothing else is held.
C28_ResultsPartitionInputs ==
    (driver = "page" /\ step = "matching") =>
        /\ \A i \in 1..Len(Fetched) : Cardinality(TransactionPlaces(Fetched[i])) = 1
        /\ \A j \in 1..Len(Uploaded) : Cardinality(DepositPlaces(Uploaded[j])) = 1
        /\ HeldTransactions = Range(Fetched)
        /\ HeldDeposits = Range(Uploaded)

\* an accepted group match of the later deposit with the first and the last
\* fetched transaction, the other transaction and the earlier deposit in the
\* pools
C28_Witness ==
    /\ driver = "page" /\ step = "matching"
    /\ Len(groupMatchResults) = 1
    /\ Len(Uploaded) = 2 /\ Len(Fetched) = 3
    /\ groupMatchResults[1].bankRecord = Uploaded[2]
    /\ groupMatchResults[1].transactions = <<Fetched[1], Fetched[3]>>
    /\ unmatchedRecords = <<Uploaded[1]>>
    /\ unmatchedTransactions = <<Fetched[2]>>

---------------------------------------------------------------------------
(* Scenario C *)

\* The transactions and deposits the single matching left over
LeftTransactions == SelectSeq(transactions, LAMBDA t : t.id \notin usedTransactionIds)
LeftRecords == SelectSeq(bankRecords, LAMBDA r : r.id \notin usedRecordIds)

\* Sum of the amounts of the left-over transactions with an id in S
RECURSIVE SumOfIds(_)
SumOfIds(S) ==
    IF S = {} THEN 0
    ELSE LET id == CHOOSE id \in S : TRUE
         IN  Stored(id).amount + SumOfIds(S \ {id})

\* C26: with a single unmatched deposit and 2 to 10 outstanding, unconsumed
\* transactions, all under the same top-level client whose name matches the
\* depositor, and a subset of at least 2 of them summing to the deposit's
\* amount, performGroupMatching returns a GroupMatchResult that pairs the
\* deposit with at least 2 of them summing to its amount.
C26_ScenarioCGeneralised ==
    ( /\ GroupDone
      /\ Len(LeftRecords) = 1
      /\ Len(LeftTransactions) >= 2 /\ Len(LeftTransactions) <= maxItemsCap
      /\ \A i \in 1..Len(LeftTransactions) :
            /\ LeftTransactions[i].clients # NoClient
            /\ ParentIdOf(LeftTransactions[i]) = ParentIdOf(LeftTransactions[1])
      /\ isNameMatch(TopLevelName(LeftTransactions[1]), LeftRecords[1].depositor)
      /\ \E S \in SUBSET Ids(LeftTransactions) :
            Cardinality(S) >= 2 /\ SumOfIds(S) = LeftRecords[1].amount )
    => \E g \in 1..Len(groupResults) :
          /\ groupResults[g].bankRecord.id = LeftRecords[1].id
          /\ Len(groupResults[g].transactions) >= 2
          /\ Ids(groupResults[g].transactions) \subseteq Ids(LeftTransactions)
          /\ SumAmounts(groupResults[g].transactions) = LeftRecords[1].amount

---------------------------------------------------------------------------
(* Order of the single matching *)

\* The deposit has the amount of the transaction, a date the order date
\* allows, and a depositor the client name matches
Qualifies(T, D) ==
    /\ T.amount = D.amount
    /\ T.order_date # NoDate =>
          /\ T.order_date[1] = D.transaction_date[1]
          /\ ~ DateAfter(T.order_date, D.transaction_date)
    /\ T.clients # NoClient
    /\ T.clients.name # <<>>
    /\ isNameMatch(T.clients.name, D.depositor)

\* Position of a transaction / of a deposit in the input lists
TxPos(T) == CHOOSE i \in 1..Len(transactions) : transactions[i].id = T.id
RecPos(D) == CHOOSE j \in 1..Len(bankRecords) : bankRecords[j].id = D.id

\* Deposit j is in a pair of a transaction before position i
TakenBefore(j, i) ==
    \E k \in 1..Len(results) :
       /\ results[k].bankRecord.id = bankRecords[j].id
       /\ TxPos(results[k].transaction) < i

\* The deposits transaction i can take at its turn
FreeFor(i) ==
    {j \in 1..Len(bankRecords) :
        Qualifies(transactions[i], bankRecords[j]) /\ ~ TakenBefore(j, i)}

\* C24: performMatching is greedy first-fit in input order: the pairs are
\* in the order of the transactions; each transaction is paired with the
\* first deposit in input order that no earlier pair holds and that has its
\* amount, an eligible date and a matching name, and is in no pair only when
\* there is no such deposit at its turn; a deposit held by a later transaction
\* is never one an earlier unmatched transaction qualified for.
C24_GreedyFirstFit ==
    SingleDone =>
        /\ \A k \in 1..(Len(results) - 1) :
              TxPos(results[k].transaction) < TxPos(results[k + 1].transaction)
        /\ \A i \in 1..Len(transactions) :
              IF FreeFor(i) = {}
              THEN \A k \in 1..Len(results) : results[k].transaction.id # transactions[i].id
              ELSE \E k \in 1..Len(results) :
                      /\ results[k].transaction.id = transactions[i].id
                      /\ RecPos(results[k].bankRecord) \in FreeFor(i)
                      /\ \A j \in FreeFor(i) : RecPos(results[k].bankRecord) <= j
        /\ \A k \in 1..Len(results) :
              \A i \in 1..(TxPos(results[k].transaction) - 1) :
                 Qualifies(transactions[i], results[k].bankRecord) =>
                    \E e \in 1..Len(results) :
                       /\ results[e].transaction.id = transactions[i].id
                       /\ e < k

\* three transactions qualify for two like deposits: the first takes the
\* first deposit, the second the second, the third stays unmatched
C24_Witness ==
    /\ SingleDone
    /\ Len(transactions) = 3 /\ Len(bankRecords) = 2
    /\ \A i \in 1..3, j \in 1..2 : Qualifies(transactions[i], bankRecords[j])
    /\ Len(results) = 2
    /\ results[1].transaction.id = transactions[1].id
    /\ results[1].bankRecord.id = bankRecords[1].id
    /\ results[2].transaction.id = transactions[2].id
    /\ results[2].bankRecord.id = bankRecords[2].id

---------------------------------------------------------------------------
(* The work-log page: status and paid date of a row of the store *)

TransactionStatus == {"quote", "design", "production", "completed", "card"}

\* The dates an operator enters, and the dates "today" may be
PaidDates == {DepositDate, LaterDepositDate}

InitWorklog ==
    /\ driver = "worklog"
    /\ transactions = [i \in 1..MaxTx |-> Transaction(i, 1, ClientP, NoDate, "quote", NoDate)]
    /\ bankRecords = <<>>
    /\ pc = "start"
    /\ results = <<>> /\ groupResults = <<>>
    /\ usedRecordIds = {} /\ usedTransactionIds = {}
    /\ InitIdle

\* .update(updateData).eq('id', id) on the store
UpdateRow(txs, id, updateData) ==
    [i \in DOMAIN txs |->
        IF txs[i].id = id
        THEN [f \in DOMAIN txs[i] |->
                 IF f \in DOMAIN updateData THEN updateData[f] ELSE txs[i][f]]
        ELSE txs[i]]

\* handleStatusChange(id, status, paidAt?): completed takes paidAt or today,
\* every other status clears paid_at
HandleStatusChange ==
    /\ driver = "worklog"
    /\ \E i \in 1..Len(transactions), status \in TransactionStatus,
          paidAt \in PaidDates \cup {NoDate}, today \in PaidDates :
          LET updateData ==
                  IF status = "completed"
                  THEN [status |-> status,
                        paid_at |-> IF paidAt # NoDate THEN paidAt ELSE today]
                  ELSE [status |-> status, paid_at |-> NoDate]
          IN  transactions' = UpdateRow(transactions, transactions[i].id, updateData)
    /\ UNCHANGED <<driver, bankRecords, pc, results, usedRecordIds, usedTransactionIds,
                   groupResults, combVars, pageVars, nameVars, parseVars, searchVars>>

\* handlePaidAtChange(id, paidAt): a date completes the row, the empty string
\* clears paid_at and leaves the status
HandlePaidAtChange ==
    /\ driver = "worklog"
    /\ \E i \in 1..Len(transactions), paidAt \in PaidDates \cup {NoDate} :
          LET updateData ==
                  IF paidAt # NoDate
                  THEN [paid_at |-> paidAt, status |-> "completed"]
                  ELSE [paid_at |-> NoDate]
          IN  transactions' = UpdateRow(transactions, transactions[i].id, updateData)
    /\ UNCHANGED <<driver, bankRecords, pc, results, usedRecordIds, usedTransactionIds,
                   groupResults, combVars, pageVars, nameVars, parseVars, searchVars>>

NextWorklog == HandleStatusChange \/ HandlePaidAtChange

SpecWorklog == InitWorklog /\ [][NextWorklog]_vars

\* C22: in every state reached through status changes and paid-date changes
\* (and the application of matches), a transaction's paid_at is non-null
\* exactly when its status is completed or card.
C22_PaidIffSettled ==
    \A i \in 1..Len(transactions) :
       (transactions[i].paid_at # NoDate) <=> (transactions[i].status \in {"completed", "card"})

---------------------------------------------------------------------------
(* The bank-statement parsers *)

\* A cell: a number, a string, or nothing (a column past the end of a CSV line)
NumberCell(n) == [t |-> "n", v |-> n]
StringCell(str) == [t |-> "s", v |-> str]
MissingCell == [t |-> "u", v |-> 0]

Digits == {"0", "1", "2"}
DigitValue(c) == CASE c = "0" -> 0 [] c = "1" -> 1 [] c = "2" -> 2

NaN == [nan |-> TRUE, n |-> 0]
Num(n) == [nan |-> FALSE, n |-> n]

\* str.replace(/c/g, '')
RemoveAll(str, c) == SelectSeq(str, LAMBDA x : x # c)

\* str.trim()
RECURSIVE trimStart(_)
trimStart(str) ==
    IF str # <<>> /\ Head(str) = " " THEN trimStart(Tail(str)) ELSE str

RECURSIVE trimEnd(_)
trimEnd(str) ==
    IF str # <<>> /\ str[Len(str)] = " " THEN trimEnd(SubSeq(str, 1, Len(str) - 1)) ELSE str

trim(str) == trimEnd(trimStart(str))

\* The value of the longest prefix of digits, and its length
RECURSIVE DigitPrefix(_, _, _)
DigitPrefix(str, acc, n) ==
    IF str # <<>> /\ Head(str) \in Digits
    THEN DigitPrefix(Tail(str), 10 * acc + DigitValue(Head(str)), n + 1)
    ELSE [value |-> acc, length |-> n]

\* parseInt(str, 10): leading white space, an optional sign, then digits; NaN
\* when no digit follows
parseInt(str) ==
    LET body == trimStart(str)
        signed == body # <<>> /\ Head(body) \in {"-", "+"}
        prefix == DigitPrefix(IF signed THEN Tail(body) ELSE body, 0, 0)
    IN  IF prefix.length = 0 THEN NaN
        ELSE IF signed /\ Head(body) = "-" THEN Num(0 - prefix.value)
        ELSE Num(prefix.value)

\* Mutant of parseAmount: the sign of a string amount is dropped
parseAmountUnsigned(value) ==
    IF value.t = "n" THEN value.v
    ELSE IF value.t = "u" \/ value.v = <<>> THEN 0
    ELSE LET num == parseInt(RemoveAll(trim(RemoveAll(value.v, ",")), "-"))
         IN  IF num.nan THEN 0 ELSE num.n

\* parseAmount(value)
parseAmount(value) ==
    IF value.t = "n" THEN value.v
    ELSE IF value.t = "u" \/ value.v = <<>> THEN 0
    ELSE LET cleanValue == trim(RemoveAll(value.v, ","))
             num == parseInt(cleanValue)
         IN  IF num.nan THEN 0 ELSE num.n

\* A date cell in one of the forms normalizeDate rewrites to YYYY-MM-DD, a
\* text it returns as it is, or an empty cell
DateCell(form, d) == [form |-> form, date |-> d]
NotIsoDate == <<0, 0, 0>>

\* normalizeDate(dateValue): the ISO date, '' for an empty cell, the text
\* itself (here NotIsoDate) for any other text
normalizeDate(dateValue) ==
    IF dateValue.form = "empty" THEN NoDate
    ELSE IF dateValue.form \in {"serial", "iso", "dotted", "dotted_time", "slashed", "compact"}
         THEN dateValue.date
    ELSE NotIsoDate

\* !cell
Falsy(cell) ==
    \/ cell.t = "u"
    \/ cell.t = "n" /\ cell.v = 0
    \/ cell.t = "s" /\ cell.v = <<>>

\* The data rows of parseKBExcel after the header row, in order
RECURSIVE KBRows(_, _)
KBRows(sheet, i) ==
    IF i > Len(sheet.rows) THEN <<>>
    ELSE LET row == sheet.rows[i]
             description == row.description
             depositAmount == IF sheet.depositColumn THEN parseAmount(row.deposit) ELSE 0
             transactionDate == normalizeDate(row.date)
         IN  IF row.date.form = "empty" /\ description = <<>> /\ Falsy(row.deposit)
             THEN KBRows(sheet, i + 1)
             ELSE IF depositAmount <= 0 THEN KBRows(sheet, i + 1)
             ELSE IF transactionDate = NoDate \/ transactionDate = NotIsoDate
                  THEN KBRows(sheet, i + 1)
             ELSE <<[transaction_date |-> transactionDate,
                     description |-> description,
                     depositor |-> description,
                     amount |-> depositAmount]>> \o KBRows(sheet, i + 1)

parseKBExcel(sheet) == KBRows(sheet, 1)

\* values[k] of a CSV line: trimmed, with the double quotes removed
CsvValue(cell) ==
    IF cell.t = "s" THEN StringCell(RemoveAll(trim(cell.v), "\"")) ELSE cell

\* The lines of parseCSV after the header line, in order
RECURSIVE CSVRows(_, _)
CSVRows(sheet, i) ==
    IF i > Len(sheet.rows) THEN <<>>
    ELSE LET row == sheet.rows[i]
             depositAmount == IF sheet.depositColumn
                              THEN parseAmount(CsvValue(row.deposit)) ELSE 0
         IN  IF depositAmount <= 0 THEN CSVRows(sheet, i + 1)
             ELSE <<[transaction_date |-> normalizeDate(row.date),
                     description |-> row.description,
                     depositor |-> row.description,
                     amount |-> depositAmount]>> \o CSVRows(sheet, i + 1)

parseCSV(sheet) == IF Len(sheet.rows) < 1 THEN <<>> ELSE CSVRows(sheet, 1)

\* Amount cells of a sheet: numbers and texts
SheetAmountCells ==
    {NumberCell(-1), NumberCell(0), NumberCell(2),
     StringCell(<<>>), StringCell(<<"2">>), StringCell(<<"1", ",", "0">>),
     StringCell(<<"-", "1">>), StringCell(<<"0">>), StringCell(<<"a">>),
     StringCell(<<" ", "2", " ">>), StringCell(<<"2", "a">>), StringCell(<<"-">>),
     StringCell(<<",">>)}

\* Amount cells of a CSV line: texts without a comma, or nothing
CsvAmountCells ==
    {MissingCell,
     StringCell(<<>>), StringCell(<<"2">>), StringCell(<<"\"", "2", "\"">>),
     StringCell(<<"-", "1">>), StringCell(<<"0">>), StringCell(<<"a">>),
     StringCell(<<" ", "2", " ">>), StringCell(<<"2", "a">>), StringCell(<<"-">>),
     StringCell(<<"+", "1">>), StringCell(<<"a", "2">>), StringCell(<<"0", "0">>)}

DateCells == {DateCell("iso", DepositDate), DateCell("text", NoDate), DateCell("empty", NoDate)}

\* The description cell of row i names the row
RowName(i) == <<"r", CASE i = 1 -> "1" [] i = 2 -> "2" [] OTHER -> "0">>

InitParse ==
    /\ driver \in {"excel", "csv"}
    /\ \E n \in 0..MaxRec, depositColumn \in BOOLEAN :
          \E a \in [1..n -> IF driver = "excel" THEN SheetAmountCells ELSE CsvAmountCells],
             d \in [1..n -> DateCells] :
             rawData = [depositColumn |-> depositColumn,
                        rows |-> [i \in 1..n |->
                                    [date |-> d[i], description |-> RowName(i),
                                     deposit |-> a[i]]]]
    /\ parsed = <<>>
    /\ callStack = <<>> /\ ret = NoReturn /\ searchSorted = <<>>
    /\ pc = "start"
    /\ transactions = <<>> /\ bankRecords = <<>>
    /\ results = <<>> /\ groupResults = <<>>
    /\ usedRecordIds = {} /\ usedTransactionIds = {}
    /\ cands = <<>> /\ target = 0 /\ combo = NoCombination
    /\ parsedRecords = <<>> /\ step = "upload"
    /\ matchResults = <<>> /\ groupMatchResults = <<>>
    /\ unmatchedRecords = <<>> /\ unmatchedTransactions = <<>>
    /\ selectedRecordForGroup = NoRecord /\ selectedTransactionIds = {}
    /\ error = ""
    /\ clientNameArg = <<>> /\ depositorArg = <<>> /\ nameMatched = FALSE

RunParseKBExcel ==
    /\ driver = "excel" /\ pc = "start"
    /\ parsed' = parseKBExcel(rawData)
    /\ pc' = "parsed"
    /\ UNCHANGED <<driver, transactions, bankRecords, results, usedRecordIds,
                   usedTransactionIds, groupResults, combVars, pageVars, nameVars, rawData, searchVars>>

RunParseCSV ==
    /\ driver = "csv" /\ pc = "start"
    /\ parsed' = parseCSV(rawData)
    /\ pc' = "parsed"
    /\ UNCHANGED <<driver, transactions, bankRecords, results, usedRecordIds,
                   usedTransactionIds, groupResults, combVars, pageVars, nameVars, rawData, searchVars>>

NextParse == RunParseKBExcel \/ RunParseCSV

SpecParse == InitParse /\ [][NextParse]_vars

Parsed == driver \in {"excel", "csv"} /\ pc = "parsed"

\* The text of an amount cell as the parser reads it
AmountText(cell) == IF driver = "csv" THEN CsvValue(cell).v ELSE cell.v

\* An amount cell that is missing or empty, a number that is zero or negative,
\* a text without any digit, with no digit other than 0, or with a minus sign
\* before its first digit
NotAnAmount(cell) ==
    \/ cell.t = "u"
    \/ cell.t = "n" /\ cell.v <= 0
    \/ /\ cell.t = "s"
       /\ LET text == AmountText(cell)
          IN  \/ \A k \in 1..Len(text) : text[k] \notin Digits \ {"0"}
              \/ \E k \in 1..Len(text) :
                    /\ text[k] = "-"
                    /\ \A j \in 1..(k - 1) : text[j] \notin Digits

\* C23: every record a parser emits has a strictly positive amount; a row
\* whose amount is missing, zero, negative or not a number (or a sheet without
\* a deposit column) yields no record.
C23_EmittedAmountsPositive ==
    Parsed =>
        /\ \A k \in 1..Len(parsed) : parsed[k].amount > 0
        /\ \A i \in 1..Len(rawData.rows) :
              (~rawData.depositColumn \/ NotAnAmount(rawData.rows[i].deposit)) =>
                 \A k \in 1..Len(parsed) :
                    parsed[k].description # rawData.rows[i].description

\* a file of two rows, the first with a negative amount text and the second
\* with a positive one: one record, of the second row
C23_Witness ==
    /\ Parsed /\ rawData.depositColumn
    /\ Len(rawData.rows) = 2
    /\ rawData.rows[1].deposit = StringCell(<<"-", "1">>)
    /\ Len(parsed) = 1
    /\ parsed[1].description = rawData.rows[2].description

---------------------------------------------------------------------------
(* The calls of backtrack, one step at a time *)

\* Amounts of the candidates of a stepped search
SearchAmounts == {0, 1, 2}

\* Lists of up to MaxShort candidates, and one list of MaxLong candidates:
\* three of amount 0 after candidates of amount 2 (for a target of 1 every
\* branch that takes a 2 is abandoned at once and the search goes on down to
\* the cap without them)
SearchAmountLists ==
    UNION { [1..n -> SearchAmounts] : n \in 0..MaxShort }
    \cup { [i \in 1..MaxLong |-> IF i <= MaxLong - 3 THEN 2 ELSE 0] }

InitSearch ==
    /\ driver = "search"
    /\ \E a \in SearchAmountLists :
          cands = [i \in 1..Len(a) |-> Candidate(i, a[i])]
    /\ target \in -1..2
    /\ combo = NoCombination
    /\ callStack = <<>> /\ ret = NoReturn /\ searchSorted = <<>>
    /\ pc = "start"
    /\ transactions = <<>> /\ bankRecords = <<>>
    /\ results = <<>> /\ groupResults = <<>>
    /\ usedRecordIds = {} /\ usedTransactionIds = {}
    /\ parsedRecords = <<>> /\ step = "upload"
    /\ matchResults = <<>> /\ groupMatchResults = <<>>
    /\ unmatchedRecords = <<>> /\ unmatchedTransactions = <<>>
    /\ selectedRecordForGroup = NoRecord /\ selectedTransactionIds = {}
    /\ error = ""
    /\ rawData = NoSheet /\ parsed = <<>>
    /\ clientNameArg = <<>> /\ depositorArg = <<>> /\ nameMatched = FALSE

\* const maxItems of the running search
maxItemsOfSearch == Min(Len(searchSorted), maxItemsCap)

\* A call backtrack(index, currentSum, selected) and where it stands: at its
\* entry, waiting for withCurrent, or waiting for the call it returns
Frame(index, currentSum, selected, at) ==
    [index |-> index, currentSum |-> currentSum, selected |-> selected, at |-> at]

Top == callStack[Len(callStack)]
Pop == SubSeq(callStack, 1, Len(callStack) - 1)
Returning(value) == [pending |-> TRUE, found |-> value.found, selected |-> value.selected]

\* Mutant of ReturnsNull: a selection that exceeds the target is searched on
ReturnsNullAtEnd(frame) == frame.index >= maxItemsOfSearch

\* currentSum > targetAmount || index >= maxItems
ReturnsNull(frame) ==
    frame.currentSum > target \/ frame.index >= maxItemsOfSearch

\* return backtrack(0, 0, [])
StartSearch ==
    /\ driver = "search" /\ pc = "start"
    /\ searchSorted' = SortDesc(cands)
    /\ callStack' = <<Frame(0, 0, <<>>, "entry")>>
    /\ pc' = "searching"
    /\ UNCHANGED <<driver, transactions, bankRecords, results, usedRecordIds,
                   usedTransactionIds, groupResults, combVars, pageVars, nameVars,
                   parseVars, ret>>

\* The call on top of the stack runs from its entry: it returns selected,
\* returns null, or calls backtrack with sorted[index] taken
EnterCall ==
    /\ driver = "search" /\ pc = "searching"
    /\ ~ ret.pending /\ callStack # <<>> /\ Top.at = "entry"
    /\ IF Top.currentSum = target /\ Len(Top.selected) >= 2
       THEN /\ ret' = Returning([found |-> TRUE, selected |-> Top.selected])
            /\ callStack' = Pop
       ELSE IF ReturnsNull(Top)
       THEN /\ ret' = Returning(NoCombination)
            /\ callStack' = Pop
       ELSE /\ ret' = ret
            /\ callStack' =
                  Append(Append(Pop, [Top EXCEPT !.at = "withCurrent"]),
                         Frame(Top.index + 1,
                               Top.currentSum + searchSorted[Top.index + 1].amount,
                               Append(Top.selected, searchSorted[Top.index + 1]),
                               "entry"))
    /\ UNCHANGED <<driver, coreVars, combVars, pageVars, nameVars, parseVars, searchSorted>>

\* A call has returned to the call on top of the stack: withCurrent is
\* returned when it is not null, else backtrack is called with sorted[index]
\* left out, and the value of that call is returned as it is
ResumeCall ==
    /\ driver = "search" /\ pc = "searching"
    /\ ret.pending /\ callStack # <<>>
    /\ IF Top.at = "withCurrent" /\ ~ ret.found
       THEN /\ ret' = NoReturn
            /\ callStack' =
                  Append(Append(Pop, [Top EXCEPT !.at = "withoutCurrent"]),
                         Frame(Top.index + 1, Top.currentSum, Top.selected, "entry"))
       ELSE /\ ret' = ret
            /\ callStack' = Pop
    /\ UNCHANGED <<driver, coreVars, combVars, pageVars, nameVars, parseVars, searchSorted>>

\* The outermost call has returned: findMatchingCombination returns its value
FinishSearch ==
    /\ driver = "search" /\ pc = "searching"
    /\ ret.pending /\ callStack = <<>>
    /\ combo' = [found |-> ret.found, selected |-> ret.selected]
    /\ ret' = NoReturn
    /\ pc' = "searched"
    /\ UNCHANGED <<driver, transactions, bankRecords, results, usedRecordIds,
                   usedTransactionIds, groupResults, cands, target, pageVars, nameVars,
                   parseVars, callStack, searchSorted>>

NextSearch == StartSearch \/ EnterCall \/ ResumeCall \/ FinishSearch

SpecSearch == InitSearch /\ [][NextSearch]_vars

\* The stepped search returns what findMatchingCombination returns
SearchAgrees ==
    (driver = "search" /\ pc = "searched") => combo = findMatchingCombination(cands, target)

\* Every call on the stack was made by the call below it with the next index;
\* no call is deeper than min(number of candidates, 10) decisions; a call
\* whose sum exceeds the target, or whose selection is an answer, makes no call
CallsBounded ==
    driver = "search" =>
        /\ callStack # <<>> => callStack[1].index = 0
        /\ \A k \in 1..(Len(callStack) - 1) :
              /\ callStack[k + 1].index = callStack[k].index + 1
              /\ callStack[k + 1].index > callStack[k].index
              /\ callStack[k].currentSum <= target
              /\ ~ (callStack[k].currentSum = target /\ Len(callStack[k].selected) >= 2)
        /\ \A k \in 1..Len(callStack) :
              /\ callStack[k].index <= Min(Len(cands), maxItemsCap)
              /\ Len(callStack[k].selected) <= callStack[k].index
        /\ Len(callStack) <= Min(Len(cands), maxItemsCap) + 1

\* While the search runs, a call is at its entry or a value is being returned:
\* the search always has a next step
SearchCanStep ==
    (driver = "search" /\ pc = "searching") =>
        \/ ret.pending
        \/ callStack # <<>> /\ Top.at = "entry"

RECURSIVE Pow2(_)
Pow2(n) == IF n = 0 THEN 1 ELSE 2 * Pow2(n - 1)

\* Steps a call entered with d decisions left can still take, and steps left
\* to a call that waits for withCurrent or for its last call
StepsOfCall(d) == Pow2(d + 2) - 2
StepsLeft(frame, maxItems) ==
    LET d == maxItems - frame.index
    IN  IF frame.at = "entry" THEN StepsOfCall(d)
        ELSE IF frame.at = "withCurrent" THEN StepsOfCall(d - 1) + 1
        ELSE 1

RECURSIVE SumStepsLeft(_, _)
SumStepsLeft(stack, maxItems) ==
    IF stack = <<>> THEN 0
    ELSE StepsLeft(Head(stack), maxItems) + SumStepsLeft(Tail(stack), maxItems)

\* A bound on the steps the search can still take: a natural number
SearchVariant ==
    IF pc = "start" THEN StepsOfCall(Min(Len(cands), maxItemsCap)) + 2
    ELSE IF pc = "searching"
         THEN SumStepsLeft(callStack, Min(Len(cands), maxItemsCap))
              + (IF ret.pending THEN 1 ELSE 0)
    ELSE 0

\* C30: findMatchingCombination terminates for every finite candidate list
\* and every integer target: each recursive call of backtrack has an index
\* greater by one than its caller's, no call is deeper than
\* min(number of candidates, 10) include/exclude decisions, and a call whose
\* running sum exceeds the target makes no further call; the running search
\* always has a next step and every step lowers a bound on the steps left,
\* which is a natural number, so the search returns.
C30_SearchTerminates ==
    /\ [](CallsBounded /\ SearchCanStep)
    /\ [][driver = "search" => (SearchVariant' < SearchVariant /\ SearchVariant' >= 0)]_vars

\* the search over more than ten candidates at its deepest: ten decisions
\* taken, after branches that exceeded the target were abandoned
C30_Witness ==
    /\ driver = "search"
    /\ Len(cands) > maxItemsCap
    /\ Len(callStack) = maxItemsCap + 1
    /\ Top.index = maxItemsCap
    /\ Top.currentSum < target

---------------------------------------------------------------------------
(* The matching core and the upload page together *)

Init == InitCore \/ InitPage

Next == NextCore \/ NextPage

Spec == Init /\ [][Next]_vars

\* A GroupMatchResult holds at least 2 transactions whose amounts sum to the
\* amount of its deposit, recorded as totalAmount
WellFormedGroup(g) ==
    /\ Len(g.transactions) >= 2
    /\ SumAmounts(g.transactions) = g.bankRecord.amount
    /\ g.totalAmount = g.bankRecord.amount

\* C8: every GroupMatchResult, returned by performGroupMatching or added by a
\* manual confirmation, holds at least 2 transactions whose amounts sum exactly
\* to the amount of its deposit, and its totalAmount is that amount.
C8_GroupSumsToDeposit ==
    /\ \A g \in 1..Len(groupResults) : WellFormedGroup(groupResults[g])
    /\ \A g \in 1..Len(groupMatchResults) : WellFormedGroup(groupMatchResults[g])

\* a manual confirmation of three transactions for the second deposit while
\* the first deposit stays unmatched
C8_Witness ==
    /\ driver = "page"
    /\ Len(groupMatchResults) = 1
    /\ Len(groupMatchResults[1].transactions) = 3
    /\ Len(unmatchedRecords) = 1
    /\ unmatchedRecords[1].id < groupMatchResults[1].bankRecord.id

=============================================================================
